---- MODULE Spec2Model ----
(***************************************************************************)
(* Numeric event-finding engine of Perigaeum-Finder: retrograde-window     *)
(* hysteresis (findRetroWindows), root scan and bisection                  *)
(* (findPerigeesNumerical, bisectZero, refineRootBisection), golden        *)
(* section minimum (goldenMin) and the event de-duplication steps.         *)
(*                                                                         *)
(* Times are integers in a fixed unit per machine (stated at each          *)
(* machine); speeds are integers in units of half the neutral threshold.   *)
(* A sampled value is a record [fin, v]: fin = FALSE is a non-finite       *)
(* sample (NaN), whose v is not read.                                      *)
(***************************************************************************)
EXTENDS Integers, Naturals, Sequences, FiniteSets, TLC

VARIABLES
    \* ---- findRetroWindows (src/api/perigaeum-year.js 140-196) ----
    jdEndR,        \* argument jdEnd (jdStart is JdStartR)
    jdR,           \* loop variable jd
    pcR,           \* "loop" | "break" | "done"
    sp,            \* the sample read in the last iteration
    inRetro,
    startJd,       \* <<>> for null, <<t>> for a time
    retroStreak,
    directStreak,
    windows,       \* the windows pushed so far, <<a, b>> each
    retR,          \* the returned (filtered) windows
    histR,         \* the signs (TRUE = retro) of the last `need` counted samples
    allNaNR,       \* every sample read so far was non-finite
    onsetR,        \* <<t>>: the time of the first sample of the running negative streak
    onsetsR,       \* the onset of each flip to Retrograde, in the order of the windows
    \* ---- findPerigeesNumerical (src/api/perigaeum-year.js 446-485) ----
    oracleP,       \* the distance oracle behind getDist
    jdEndP,        \* argument jdEnd (jdStart is JdStartP)
    jdP,           \* loop variable jd
    pcP,           \* "idle" | "loop" | "break" | "done"
    prevJd,
    prevV,
    hits,          \* the roots pushed so far
    \* ---- bisectZero and refineRootBisection called on a bracket ----
    bzIn,          \* bisectZero's arguments: [o, a, b]
    bzOut,         \* its result: <<>> for null, <<t>> for a time
    pcBz,          \* "idle" | "call" | "ret"
    rrIn,          \* refineRootBisection's arguments: [o, t0ms, t1ms, target]
    rrOut,         \* its result: <<>> for null, <<ms>> for a Date
    pcRr,          \* "idle" | "call" | "ret"
    \* ---- goldenMin (src/api/perigaeum-year.js 67-87) ----
    fG,            \* the observable f: [kind, t0]
    aG, bG,        \* a, b
    cG, dG,        \* c, d
    fcG, fdG,      \* fc, fd
    itG,           \* it
    pcG,           \* "idle" | "loop" | "done"
    retG,          \* the returned midpoint, <<>> before the return
    \* ---- the de-duplication steps ----
    siteD,         \* which step runs: "phaseMin" | "phaseRoot" | "returns" | "perigee"
    candD,         \* the candidates produced so far, in the order of the scan
    eventsD,       \* events / returns / perigees: what has been kept
    pcD,           \* "idle" | "scan" | "done"
    \* ---- classifyEvent (src/api/jonas-mondphasen-year.js 564-602, 982-1049) ----
    ceIn,          \* the chosen pair and the event: [per, apo, dist]
    ceKind,        \* kind returned by the first variant, <<>> before its return
    ceKind2,       \* kind returned by the second variant, <<>> before its return
    \* ---- the yearly perigee handler (src/api/perigaeum-year.js 198-333, 809-948) ----
    variantH,      \* "guarded" | "tryCatch"
    pcH,           \* "idle" | "validate" | "init" | "bodies" | "finally" | "done"
    sweH,          \* the SwissEph handle: "none" | "open" | "closed"
    oraclesH,      \* what calc_ut did for each body handled so far
    resultsH,      \* results
    totalCountH,   \* totalCount
    respH,         \* the response: <<>> before it is sent, <<[status, ok]>> after
    \* ---- the phase-return handler (src/api/jonas-mondphasen-year.js 131-275) ----
    pcJ,           \* "idle" | "precheck" | "new" | "params" | "scan" | "done"
    sweJ,          \* the SwissEph handle: "none" | "open" | "closed"
    respJ,         \* the response, as respH
    oracleJ,       \* the oracle behind swe.calc_ut
    targetJ,       \* targetAngle
    tolJ,          \* tol
    stepMsJ,       \* stepMs
    endJ,          \* endDate
    tPrevJ,        \* tPrev
    prevJ,         \* prev.f
    tJ,            \* t
    returnsJ,      \* returns: [t, ang, f] each
    \* ---- the prenatal-check handler (src/api/prenatal-check.js 3-107) ----
    pcN,           \* "idle" | "validate" | "new" | "compute" | "done"
    sweN,          \* the SwissEph handle: "none" | "open" | "closed"
    respN,         \* the response, as respH
    \* ---- the lunar perigee/apogee handler (src/api/moon-perigee-apogee-year.js) ----
    variantM,      \* "daily" (moon-perigee-apogee-year.js) | "refined" (jonas-mondphasen-year.js 473-687)
    pcM,           \* "idle" | "validate" | "loop" | "finally" | "done"
    sweM,          \* the SwissEph handle: "none" | "open" | "closed"
    oracleM,       \* the Moon's distance: [m, fail]
    iM,            \* i
    prevDistM,     \* prevDist: <<>> for null, else <<dist>>
    prevTrendM,    \* prevTrend: 0 for null, else -1 or +1
    perigeesRawM,  \* the event times pushed for minima (eventJd / jdApprox)
    apogeesRawM,   \* the event times pushed for maxima
    perigeesM,     \* perigees of the response, as day numbers counted from 01.01.
    apogeesM,      \* apogees of the response, as day numbers
    respM,         \* the response, as respH
    \* ---- the signed angular differences ----
    sdIn,          \* the arguments <<a, b>>, in units of 1e-5 degree; <<>> when idle
    sdJonas,       \* signedDiffDeg(a, b) of jonas-mondphasen-year.js: <<>> or <<d>>
    sdPrenatal,    \* signedDiffDeg(a, b) of prenatal-check.js: <<>> or <<d>>
    sdNorm,        \* normDeltaDeg(a - b): <<>> or <<d>>
    \* ---- findPhaseEventsInYear, bisection variant (jonas-mondphasen-year.js 802-854) ----
    pcF,           \* "idle" | "loop" | "done"
    oracleF,       \* the phase angle: [d0, rate], d0 at jdStart, rate per time unit
    targetF,       \* targetDeg
    jdEndF,        \* jdEnd
    jdF,           \* jd
    prevJdF,       \* prevJd
    prevGF,        \* prevG
    eventsF,       \* events: the jd of each
    \* ---- findNearestIndexByJd, findPrevNext, classifyEvent's pairing (jonas-mondphasen-year.js 442-590) ----
    lkIn,          \* the arguments [perigees, apogees, jd]: two lists of times sorted by time, and a query time; <<>> when idle
    lkNearest,     \* findNearestIndexByJd(perigees, jd): <<>> or <<i>>
    lkPrevNext,    \* findPrevNext(perigees, jd): <<>> or <<[prevIndex, nextIndex]>>
    lkPair,         \* the extrema classifyEvent(jd) uses: <<>> or <<[perUse, apoUse]>>, as times
    fpIn, \* fetchPerigeeData's argument and the ephemeris: [year, o]; <<>> before the call
    fpOut, \* the PerigeeData it resolves to, in order: [planetName, events] each, an event being its date
    pcFp, \* "idle" | "call" | "ret"
    calIn, \* jdToCalendar's argument jd: [Z, F], the instant Z - 0.5 + F * 1e-7 days; <<>> before the call
    calOut \* <<>>, or <<[year, month, day]>>: the fields that formatDateDE prints

varsR == <<jdEndR, jdR, pcR, sp, inRetro, startJd, retroStreak, directStreak,
           windows, retR, histR, allNaNR, onsetR, onsetsR>>

varsP == <<oracleP, jdEndP, jdP, pcP, prevJd, prevV, hits>>

varsB == <<bzIn, bzOut, pcBz, rrIn, rrOut, pcRr>>

varsG == <<fG, aG, bG, cG, dG, fcG, fdG, itG, pcG, retG>>

varsD == <<siteD, candD, eventsD, pcD>>

varsC == <<ceIn, ceKind, ceKind2>>

varsH == <<variantH, pcH, sweH, oraclesH, resultsH, totalCountH, respH>>

varsJ == <<pcJ, sweJ, respJ, oracleJ, targetJ, tolJ, stepMsJ, endJ, tPrevJ, prevJ, tJ,
           returnsJ>>

varsN == <<pcN, sweN, respN>>

varsM == <<variantM, pcM, sweM, oracleM, iM, prevDistM, prevTrendM, perigeesRawM,
           apogeesRawM, perigeesM, apogeesM, respM>>

varsS == <<sdIn, sdJonas, sdPrenatal, sdNorm>>

varsF == <<pcF, oracleF, targetF, jdEndF, jdF, prevJdF, prevGF, eventsF>>

varsL == <<lkIn, lkNearest, lkPrevNext, lkPair>>

varsY == <<fpIn, fpOut, pcFp>>

varsT == <<calIn, calOut>>

vars == <<varsR, varsP, varsB, varsG, varsD, varsC, varsH, varsJ, varsN, varsM, varsS, varsF, varsL, varsY, varsT>>

Max(a, b) == IF a >= b THEN a ELSE b
Min(a, b) == IF a <= b THEN a ELSE b
Abs(x) == IF x < 0 THEN 0 - x ELSE x
Last(s) == s[Len(s)]

NaN == [fin |-> FALSE, v |-> 0]
Fin(x) == [fin |-> TRUE, v |-> x]

\* A function that is not being run: its variables hold fixed values.
IdleR ==
    /\ jdEndR = 0 /\ jdR = 0 /\ pcR = "idle" /\ sp = NaN /\ inRetro = FALSE
    /\ startJd = <<>> /\ retroStreak = 0 /\ directStreak = 0
    /\ windows = <<>> /\ retR = <<>> /\ histR = <<>> /\ allNaNR = TRUE
    /\ onsetR = <<>> /\ onsetsR = <<>>

IdleP ==
    /\ oracleP = <<>> /\ jdEndP = 0 /\ jdP = 0 /\ pcP = "idle"
    /\ prevJd = 0 /\ prevV = NaN /\ hits = <<>>

IdleB ==
    /\ bzIn = <<>> /\ bzOut = <<>> /\ pcBz = "idle"
    /\ rrIn = <<>> /\ rrOut = <<>> /\ pcRr = "idle"

IdleG ==
    /\ fG = <<>> /\ aG = 0 /\ bG = 0 /\ cG = 0 /\ dG = 0 /\ fcG = 0 /\ fdG = 0
    /\ itG = 0 /\ pcG = "idle" /\ retG = <<>>

IdleD == siteD = "none" /\ candD = <<>> /\ eventsD = <<>> /\ pcD = "idle"

IdleC == ceIn = <<>> /\ ceKind = <<>> /\ ceKind2 = <<>>

IdleH ==
    /\ variantH = "none" /\ pcH = "idle" /\ sweH = "none" /\ oraclesH = <<>>
    /\ resultsH = <<>> /\ totalCountH = 0 /\ respH = <<>>

IdleJ ==
    /\ pcJ = "idle" /\ sweJ = "none" /\ respJ = <<>> /\ oracleJ = <<>> /\ targetJ = 0
    /\ tolJ = 0 /\ stepMsJ = 0 /\ endJ = 0 /\ tPrevJ = 0 /\ prevJ = 0 /\ tJ = 0
    /\ returnsJ = <<>>

IdleN == pcN = "idle" /\ sweN = "none" /\ respN = <<>>

IdleM ==
    /\ variantM = "none" /\ pcM = "idle" /\ sweM = "none" /\ oracleM = <<>> /\ iM = 0
    /\ prevDistM = <<>> /\ prevTrendM = 0 /\ perigeesRawM = <<>> /\ apogeesRawM = <<>>
    /\ perigeesM = <<>> /\ apogeesM = <<>> /\ respM = <<>>

IdleS == sdIn = <<>> /\ sdJonas = <<>> /\ sdPrenatal = <<>> /\ sdNorm = <<>>

IdleF ==
    /\ pcF = "idle" /\ oracleF = <<>> /\ targetF = 0 /\ jdEndF = 0 /\ jdF = 0
    /\ prevJdF = 0 /\ prevGF = 0 /\ eventsF = <<>>

IdleL == lkIn = <<>> /\ lkNearest = <<>> /\ lkPrevNext = <<>> /\ lkPair = <<>>

IdleY == fpIn = <<>> /\ fpOut = <<>> /\ pcFp = "idle"

IdleT == calIn = <<>> /\ calOut = <<>>

othersR == <<varsP, varsB, varsG, varsD, varsC, varsH, varsJ, varsN, varsM, varsS, varsF, varsL, varsY, varsT>>
othersP == <<varsR, varsB, varsG, varsD, varsC, varsH, varsJ, varsN, varsM, varsS, varsF, varsL, varsY, varsT>>
othersB == <<varsR, varsP, varsG, varsD, varsC, varsH, varsJ, varsN, varsM, varsS, varsF, varsL, varsY, varsT>>
othersG == <<varsR, varsP, varsB, varsD, varsC, varsH, varsJ, varsN, varsM, varsS, varsF, varsL, varsY, varsT>>
othersD == <<varsR, varsP, varsB, varsG, varsC, varsH, varsJ, varsN, varsM, varsS, varsF, varsL, varsY, varsT>>
othersC == <<varsR, varsP, varsB, varsG, varsD, varsH, varsJ, varsN, varsM, varsS, varsF, varsL, varsY, varsT>>
othersH == <<varsR, varsP, varsB, varsG, varsD, varsC, varsJ, varsN, varsM, varsS, varsF, varsL, varsY, varsT>>
othersJ == <<varsR, varsP, varsB, varsG, varsD, varsC, varsH, varsN, varsM, varsS, varsF, varsL, varsY, varsT>>
othersN == <<varsR, varsP, varsB, varsG, varsD, varsC, varsH, varsJ, varsM, varsS, varsF, varsL, varsY, varsT>>
othersM == <<varsR, varsP, varsB, varsG, varsD, varsC, varsH, varsJ, varsN, varsS, varsF, varsL, varsY, varsT>>
othersS == <<varsR, varsP, varsB, varsG, varsD, varsC, varsH, varsJ, varsN, varsM, varsF, varsL, varsY, varsT>>
othersF == <<varsR, varsP, varsB, varsG, varsD, varsC, varsH, varsJ, varsN, varsM, varsS, varsL, varsY, varsT>>
othersL == <<varsR, varsP, varsB, varsG, varsD, varsC, varsH, varsJ, varsN, varsM, varsS, varsF, varsY, varsT>>
othersY == <<varsR, varsP, varsB, varsG, varsD, varsC, varsH, varsJ, varsN, varsM, varsS, varsF, varsL, varsT>>
othersT == <<varsR, varsP, varsB, varsG, varsD, varsC, varsH, varsJ, varsN, varsM, varsS, varsF, varsL, varsY>>

(***************************************************************************)
(* findRetroWindows.  Time unit: 1/16 day, so that step = 0.125 day is 2   *)
(* units and an interval end may fall between two grid points.  jdStart    *)
(* is taken as the origin of the time axis.                                *)
(***************************************************************************)
StepR == 2            \* step = 0.125 day
Need == 3             \* need = 3
EpsSpeed == 2         \* epsSpeed = 1e-6, in speed units of 0.5e-6 deg/day
MinDurR == 16         \* the filter (b - a) > 1.0 day
JdStartR == 0
MaxEndR == 34         \* latest jdEnd explored

\* The speeds the oracle may return: clearly signed (+-3), exactly at the
\* threshold (+-2), half the threshold (+-1), zero, and non-finite.
SpeedValues == {Fin(x) : x \in {-3, -2, -1, 0, 1, 2, 3}} \cup {NaN}

\* Number.isFinite(sp) fails, or Math.abs(sp) <= epsSpeed: the sample is skipped.
\* (IsNeutral_strict: the variant that counts a speed of exactly epsSpeed.)
IsNeutral_strict(s) == (~s.fin) \/ Abs(s.v) < EpsSpeed
IsNeutral(s) == (~s.fin) \/ Abs(s.v) <= EpsSpeed

\* startJd = curJd - step * (need + 1); if (startJd < jdStart) startJd = jdStart
\* (BackDate_noclamp: the variant without the second statement.)
BackDate_noclamp(curJd) == curJd - StepR * (Need + 1)
BackDate(curJd) == Max(JdStartR, curJd - StepR * (Need + 1))

\* The streak update of a counted sample: <<retroStreak', directStreak'>>.
\* (Streaks_noreset: the variant that does not zero the other counter.)
Streaks_noreset(isRetro, rs, ds) == IF isRetro THEN <<rs + 1, ds>> ELSE <<rs, ds + 1>>
Streaks(isRetro, rs, ds) == IF isRetro THEN <<rs + 1, 0>> ELSE <<0, ds + 1>>

\* windows.filter(([a, b]) => (b - a) > 1.0)
\* (FilterWindows_none: the variant that returns windows unfiltered.)
LongEnough(w) == w[2] - w[1] > MinDurR
FilterWindows_none(ws) == ws
FilterWindows(ws) == SelectSeq(ws, LongEnough)

\* The last `need` counted signs, after appending one.
PushHist(h, b) == IF Len(h) < Need THEN Append(h, b) ELSE Append(Tail(h), b)

InitR ==
    /\ jdEndR \in {MaxEndR - 1, MaxEndR}
    /\ jdR = JdStartR
    /\ pcR = "loop"
    /\ sp = NaN
    /\ inRetro = FALSE
    /\ startJd = <<>>
    /\ retroStreak = 0
    /\ directStreak = 0
    /\ windows = <<>>
    /\ retR = <<>>
    /\ histR = <<>>
    /\ allNaNR = TRUE
    /\ onsetR = <<>>
    /\ onsetsR = <<>>

\* After the body of an iteration: break when curJd >= jdEnd, else jd += step.
AdvanceR(curJd) ==
    IF curJd >= jdEndR
    THEN pcR' = "break" /\ jdR' = jdR
    ELSE pcR' = "loop" /\ jdR' = jdR + StepR

\* One iteration of the for loop (lines 151-189).  The loop runs while
\* jd <= jdEnd + 1e-9; 1e-9 day is far below the time unit, so the guard is
\* jd <= jdEnd here, and curJd = Math.min(jd, jdEnd).
findRetroWindows_iter ==
    /\ pcR = "loop"
    /\ jdR <= jdEndR
    /\ \E s \in SpeedValues :
        LET curJd == Min(jdR, jdEndR) IN
        /\ sp' = s
        /\ allNaNR' = (allNaNR /\ ~s.fin)
        /\ AdvanceR(curJd)
        /\ IF IsNeutral(s)
           THEN UNCHANGED <<inRetro, startJd, retroStreak, directStreak, windows, histR,
                            onsetR, onsetsR>>
           ELSE LET isRetro == s.v < 0
                    st == Streaks(isRetro, retroStreak, directStreak)
                    flipIn == (~inRetro) /\ st[1] >= Need
                    inRetro1 == inRetro \/ flipIn
                    startJd1 == IF flipIn THEN <<BackDate(curJd)>> ELSE startJd
                    flipOut == inRetro1 /\ st[2] >= Need
                IN  /\ retroStreak' = st[1]
                    /\ directStreak' = st[2]
                    /\ inRetro' = (inRetro1 /\ ~flipOut)
                    /\ startJd' = IF flipOut THEN <<>> ELSE startJd1
                    /\ windows' = IF flipOut
                                  THEN Append(windows, <<startJd1[1], curJd>>)
                                  ELSE windows
                    /\ histR' = PushHist(histR, isRetro)
                    /\ onsetR' = IF ~isRetro THEN <<>>
                                 ELSE IF onsetR = <<>> THEN <<curJd>> ELSE onsetR
                    /\ onsetsR' = IF flipIn THEN Append(onsetsR, onsetR'[1]) ELSE onsetsR
    /\ UNCHANGED <<jdEndR, retR>>
    /\ UNCHANGED othersR

\* Loop exit (for-condition false, or break), terminal push and filter (191-195).
findRetroWindows_return ==
    /\ \/ pcR = "break"
       \/ pcR = "loop" /\ jdR > jdEndR
    /\ LET ws == IF inRetro /\ startJd # <<>>
                 THEN Append(windows, <<startJd[1], jdEndR>>)
                 ELSE windows
       IN  /\ windows' = ws
           /\ retR' = FilterWindows(ws)
    /\ pcR' = "done"
    /\ UNCHANGED <<jdEndR, jdR, sp, inRetro, startJd, retroStreak, directStreak, histR,
                    allNaNR, onsetR, onsetsR>>
    /\ UNCHANGED othersR

NextR == findRetroWindows_iter \/ findRetroWindows_return

InitSpecR == InitR /\ IdleP /\ IdleB /\ IdleG /\ IdleD /\ IdleC /\ IdleH /\ IdleJ /\ IdleN /\ IdleM /\ IdleS /\ IdleF /\ IdleL /\ IdleY /\ IdleT
SpecR == InitSpecR /\ [][NextR]_vars

(***************************************************************************)
(* Claims about findRetroWindows.                                          *)
(***************************************************************************)
\* The state before an iteration of the scan loop: every step out of it is
\* one sample.
SampleStepR == pcR = "loop" /\ jdR <= jdEndR

\* A counted sample: finite and |speed| > epsilon.
Counted(s) == s.fin /\ Abs(s.v) > EpsSpeed

\* The last `need` counted samples all have the sign opposing state st
\* (st = TRUE is Retrograde, whose opposing sign is direct = FALSE).
OpposingRun(h, st) == Len(h) = Need /\ \A k \in 1..Need : h[k] = ~st

\* C1: the state flips at a sample if and only if that sample is counted and
\* it and the need-1 counted samples before it all have the sign opposing the
\* current state; so an opposing run shorter than need that a same-sign
\* sample interrupts never flips the state.
C1_FlipIffOpposingStreak ==
    [][ SampleStepR =>
          ((inRetro' # inRetro) <=> (Counted(sp') /\ OpposingRun(histR', inRetro))) ]_vars

\* Both flips have happened: a window was closed and the state is Retrograde again.
C1_Witness == Len(windows) >= 1 /\ inRetro /\ pcR = "loop"

\* C2: a neutral (|speed| <= epsilon) or non-finite sample leaves inRetro, the
\* pending start, both streak counters and the emitted windows unchanged.
C2_NeutralSampleIsNoOp ==
    [][ (SampleStepR /\ ~Counted(sp')) =>
          UNCHANGED <<inRetro, startJd, retroStreak, directStreak, windows>> ]_vars

\* A sample of half the threshold read in the Retrograde state right after a
\* clearly negative one.
C2_Witness ==
    /\ inRetro /\ sp = Fin(1) /\ retroStreak >= Need
    /\ Len(histR) = Need /\ histR[Need]

\* C3: the returned windows are ordered by start and pairwise non-overlapping.
C3_WindowsNonOverlapping ==
    pcR = "done" =>
        \A i \in 1..(Len(retR) - 1) :
            /\ retR[i][1] <= retR[i + 1][1]
            /\ retR[i][2] <= retR[i + 1][1]

\* C4 as stated: still Retrograde after the last sample, so the returned
\* sequence ends with a window whose end is jdEnd.
C4_TerminalWindowAlways ==
    (pcR = "done" /\ inRetro) => (Len(retR) > 0 /\ Last(retR)[2] = jdEndR)

\* C4 amended: still Retrograde after the last sample, the returned sequence
\* ends with the window [startJd, jdEnd] exactly when jdEnd - startJd exceeds
\* the minimum duration of one day; a shorter terminal window is filtered out.
C4_TerminalWindowIfLong ==
    (pcR = "done" /\ inRetro) =>
        ((jdEndR - startJd[1] > MinDurR)
            <=> (Len(retR) > 0 /\ Last(retR) = <<startJd[1], jdEndR>>))

C4_Witness ==
    pcR = "done" /\ inRetro /\ Len(retR) > 0 /\ Last(retR)[2] = jdEndR

\* C5: a flip into Retrograde at sample time t sets the start to
\* max(jdStart, t - (need+1)*step), and every returned window satisfies
\* jdStart <= start < end <= jdEnd.
C5_BackDatedStart ==
    /\ [][ (SampleStepR /\ ~inRetro /\ inRetro') =>
             startJd' = <<Max(JdStartR, Min(jdR, jdEndR) - (Need + 1) * StepR)>> ]_vars
    /\ [](pcR = "done" =>
            \A i \in 1..Len(retR) :
                /\ JdStartR <= retR[i][1]
                /\ retR[i][1] < retR[i][2]
                /\ retR[i][2] <= jdEndR)

\* A returned window whose start was back-dated without being clamped, and
\* one whose start was clamped to jdStart.
C5_Witness ==
    /\ pcR = "done"
    /\ \E i \in 1..Len(retR) : retR[i][1] > JdStartR
    /\ \E i \in 1..Len(retR) : retR[i][1] = JdStartR

(***************************************************************************)
(* findPerigeesNumerical and bisectZero.  Time unit: 1/921600 day, in      *)
(* which step = 0.5 day, h = 0.02 day and the tolerance 1/1440 day are     *)
(* integers and every midpoint that the bisection of a step-wide bracket   *)
(* forms is an integer too.  jdStart is the origin of the time axis.       *)
(*                                                                         *)
(* The distance oracle is a triangle wave of slope +-1 distance unit per   *)
(* time unit with its minima at m + k*P, non-finite on [nan[1], nan[2]).   *)
(***************************************************************************)
StepP == 460800       \* step = 0.5 day
HP == 18432           \* h = 0.02 day
TolP == 640           \* tolDays = 1 / 1440
MaxItP == 80          \* it < 80
JdStartP == 0
MaxStepsP == 5        \* the scan covers at most this many steps

OffsetsP == {0, HP \div 2, StepP \div 4, StepP \div 2, StepP - HP \div 2}
NanWindowsP ==
    { <<0, 0>>,                                           \* finite everywhere
      <<0 - 8 * StepP, 16 * StepP>>,                      \* non-finite everywhere
      <<StepP + HP, StepP + HP + 1>>,                     \* hits the sample at jdStart + step
      <<2 * StepP + StepP \div 2 + HP, 2 * StepP + StepP \div 2 + HP + 1>> }  \* hits a midpoint only
OraclesP ==
    { [m |-> k * StepP + off, P |-> n * StepP, nan |-> w] :
        k \in 0..2, off \in OffsetsP, n \in {2, 3, 5}, w \in NanWindowsP }

\* pos[2] of swe.calc_ut(jd, bodyId, flags)
\* (getDist_finite: the variant that gives a finite distance at every time.)
getDist_finite(o, jd) ==
    LET r == (jd - o.m) % o.P
    IN  Fin(IF 2 * r <= o.P THEN r ELSE o.P - r)
getDist(o, jd) ==
    IF o.nan[1] <= jd /\ jd < o.nan[2]
    THEN NaN
    ELSE LET r == (jd - o.m) % o.P
         IN  Fin(IF 2 * r <= o.P THEN r ELSE o.P - r)

\* drdt(jd) = (getDist(jd + h) - getDist(jd - h)) / (2 * h), held as its
\* numerator: 2h > 0, so its sign, its zero and the sign of a product of two
\* values are those of the quotient.  An operand that is not finite makes
\* the result non-finite.
drdt(o, jd) ==
    LET p == getDist(o, jd + HP)
        q == getDist(o, jd - HP)
    IN  IF p.fin /\ q.fin THEN Fin(p.v - q.v) ELSE NaN

Sgn(x) == IF x > 0 THEN 1 ELSE IF x < 0 THEN 0 - 1 ELSE 0
\* The sign of the product x * y (the code tests x * y > 0 and x * y <= 0).
SignMul(x, y) == Sgn(x) * Sgn(y)

\* The for loop of bisectZero (lines 426-441); <<>> is null, <<t>> a time.
RECURSIVE bisectZero_loop(_, _, _, _, _)
bisectZero_loop(o, left, right, fa, it) ==
    IF it >= MaxItP
    THEN <<(left + right) \div 2>>
    ELSE LET mid == (left + right) \div 2
             fm == drdt(o, mid)
         IN  IF ~fm.fin THEN <<>>
             ELSE IF (right - left) <= TolP THEN <<mid>>
             ELSE IF SignMul(fa, fm.v) <= 0
                  THEN bisectZero_loop(o, left, mid, fa, it + 1)
                  ELSE bisectZero_loop(o, mid, right, fm.v, it + 1)

\* The checks before the loop (lines 417-423): same-signed endpoints give null.
\* (bisectZero_midpoint: the variant that answers such a bracket with its
\* midpoint; bisectZero_left: the variant whose answer leaves the bracket.)
bisectZero_midpoint(o, a, b) ==
    LET fa == drdt(o, a)
        fb == drdt(o, b)
    IN  IF (~fa.fin) \/ (~fb.fin) THEN <<>>
        ELSE IF fa.v = 0 THEN <<a>>
        ELSE IF fb.v = 0 THEN <<b>>
        ELSE IF SignMul(fa.v, fb.v) > 0 THEN <<(a + b) \div 2>>
        ELSE bisectZero_loop(o, a, b, fa.v, 0)
bisectZero_left(o, a, b) ==
    LET fa == drdt(o, a)
        fb == drdt(o, b)
    IN  IF (~fa.fin) \/ (~fb.fin) THEN <<>>
        ELSE IF fa.v = 0 THEN <<a>>
        ELSE IF fb.v = 0 THEN <<b>>
        ELSE IF SignMul(fa.v, fb.v) > 0 THEN <<>>
        ELSE <<a - 1>>
bisectZero(o, a, b) ==
    LET fa == drdt(o, a)
        fb == drdt(o, b)
    IN  IF (~fa.fin) \/ (~fb.fin) THEN <<>>
        ELSE IF fa.v = 0 THEN <<a>>
        ELSE IF fb.v = 0 THEN <<b>>
        ELSE IF SignMul(fa.v, fb.v) > 0 THEN <<>>
        ELSE bisectZero_loop(o, a, b, fa.v, 0)

InitP ==
    /\ oracleP \in OraclesP
    /\ jdEndP \in {JdStartP + MaxStepsP * StepP, JdStartP + MaxStepsP * StepP - StepP \div 2}
    /\ jdP = JdStartP + StepP
    /\ pcP = "loop"
    /\ prevJd = JdStartP
    /\ prevV = drdt(oracleP, JdStartP)
    /\ hits = <<>>

\* One iteration of the scan loop (lines 462-482); the guard jd <= jdEnd + 1e-9
\* is jd <= jdEnd at this time unit.
findPerigeesNumerical_iter ==
    /\ pcP = "loop"
    /\ jdP <= jdEndP
    /\ LET curJd == Min(jdP, jdEndP)
           curV == drdt(oracleP, curJd)
       IN  /\ prevJd' = curJd
           /\ prevV' = curV
           /\ IF (~prevV.fin) \/ (~curV.fin)
              THEN \* continue
                   /\ hits' = hits
                   /\ jdP' = jdP + StepP
                   /\ pcP' = "loop"
              ELSE /\ hits' = IF prevV.v < 0 /\ curV.v > 0
                              THEN hits \o bisectZero(oracleP, prevJd, curJd)
                              ELSE hits
                   /\ IF curJd >= jdEndP
                      THEN pcP' = "break" /\ jdP' = jdP
                      ELSE pcP' = "loop" /\ jdP' = jdP + StepP
    /\ UNCHANGED <<oracleP, jdEndP>>
    /\ UNCHANGED othersP

\* Loop exit and return hits (line 484).
findPerigeesNumerical_return ==
    /\ \/ pcP = "break"
       \/ pcP = "loop" /\ jdP > jdEndP
    /\ pcP' = "done"
    /\ UNCHANGED <<oracleP, jdEndP, jdP, prevJd, prevV, hits>>
    /\ UNCHANGED othersP

NextP == findPerigeesNumerical_iter \/ findPerigeesNumerical_return

InitSpecP == InitP /\ IdleR /\ IdleB /\ IdleG /\ IdleD /\ IdleC /\ IdleH /\ IdleJ /\ IdleN /\ IdleM /\ IdleS /\ IdleF /\ IdleL /\ IdleY /\ IdleT
SpecP == InitSpecP /\ [][NextP]_vars

(***************************************************************************)
(* Claims about findPerigeesNumerical.                                     *)
(***************************************************************************)
ScanStepP == pcP = "loop" /\ jdP <= jdEndP

\* The oracle is finite wherever it is probed.
FiniteOracleP == oracleP.nan[1] >= oracleP.nan[2]

\* C7: with an oracle that is finite on the scanned interval, a scan step
\* whose two samples go from a negative to a positive derivative records
\* exactly one hit, inside that sample interval; every other scan step
\* records none; and the hits are in strictly increasing time order.
C7_OneHitPerNegPosPair ==
    /\ [][ (ScanStepP /\ FiniteOracleP) =>
             IF prevV.v < 0 /\ prevV'.v > 0
             THEN /\ Len(hits') = Len(hits) + 1
                  /\ SubSeq(hits', 1, Len(hits)) = hits
                  /\ prevJd <= Last(hits') /\ Last(hits') <= prevJd'
             ELSE hits' = hits ]_vars
    /\ [](FiniteOracleP => \A i \in 1..(Len(hits) - 1) : hits[i] < hits[i + 1])

\* A finished scan of a finite oracle that recorded two perigees.
C7_Witness == pcP = "done" /\ FiniteOracleP /\ Len(hits) >= 2

(***************************************************************************)
(* refineRootBisection (src/api/jonas-mondphasen-year.js 53-86).  Times    *)
(* are integer milliseconds, angles are integers in units of 1e-5 degree.  *)
(* The oracle gives the Sun's and the Moon's longitude as linear           *)
(* functions of the whole second (jdFromUTCDate drops the milliseconds of  *)
(* the Date), each normalised to [0, 360).                                 *)
(***************************************************************************)
Full == 36000000      \* 360 degrees
HalfTurn == 18000000  \* 180 degrees
MsPerSec == 1000
StopMs == 1000        \* Math.abs(b - a) <= 1000
MaxIter == 70         \* maxIter = 70

\* JavaScript's %: the remainder has the sign of the dividend.
RemJS(x, n) == IF x >= 0 THEN x % n ELSE 0 - ((0 - x) % n)

norm360(x) ==
    LET v == RemJS(x, Full)
    IN  IF v < 0 THEN v + Full ELSE v

signedDiffDeg(a, b) ==
    LET d == norm360(a - b)
    IN  IF d > HalfTurn THEN d - Full ELSE d

\* new Date(ms) -> jdFromUTCDate: hours, minutes and whole seconds only.
SecOfMs(ms) == ms \div MsPerSec

\* swe.calc_ut(jd, SE_SUN)[0] and swe.calc_ut(jd, SE_MOON)[0]
sunLon(o, sec) == (o.s0 + o.rs * sec) % Full
moonLon(o, sec) == (o.m0 + o.rm * sec) % Full

phaseAngleDeg(o, sec) == norm360(moonLon(o, sec) - sunLon(o, sec))

fAt(o, target, ms) == signedDiffDeg(phaseAngleDeg(o, SecOfMs(ms)), target)

FloorHalf(x) == x \div 2

\* The for loop of refineRootBisection (lines 70-85).
RECURSIVE refineRootBisection_loop(_, _, _, _, _, _)
refineRootBisection_loop(o, target, a, b, fa, i) ==
    IF i >= MaxIter
    THEN <<FloorHalf(a + b)>>
    ELSE LET mid == FloorHalf(a + b)
             fm == fAt(o, target, mid)
         IN  IF Abs(b - a) <= StopMs \/ fm = 0 THEN <<mid>>
             ELSE IF SignMul(fa, fm) <= 0
                  THEN refineRootBisection_loop(o, target, a, mid, fa, i + 1)
                  ELSE refineRootBisection_loop(o, target, mid, b, fm, i + 1)

\* if (fa * fm <= 0) { b = mid; fb = fm } else { a = mid; fa = fm }:
\* <<a, b, fa>> after the statement.
\* (narrowOf_other: the variant that keeps the other half.)
narrowOf_other(a, b, mid, fa, fm) ==
    IF SignMul(fa, fm) <= 0 THEN <<mid, b, fm>> ELSE <<a, mid, fa>>
narrowOf(a, b, mid, fa, fm) ==
    IF SignMul(fa, fm) <= 0 THEN <<a, mid, fa>> ELSE <<mid, b, fm>>

\* The values of i, a and b at the head of every iteration of the for loop,
\* the last entry being the iteration that returns (or i = maxIter).
RECURSIVE refineRootBisection_brackets(_, _, _, _, _, _)
refineRootBisection_brackets(o, target, a, b, fa, i) ==
    IF i >= MaxIter
    THEN <<[i |-> i, a |-> a, b |-> b]>>
    ELSE LET mid == FloorHalf(a + b)
             fm == fAt(o, target, mid)
             n == narrowOf(a, b, mid, fa, fm)
         IN  IF Abs(b - a) <= StopMs \/ fm = 0 THEN <<[i |-> i, a |-> a, b |-> b]>>
             ELSE <<[i |-> i, a |-> a, b |-> b]>>
                  \o refineRootBisection_brackets(o, target, n[1], n[2], n[3], i + 1)

\* Lines 61-68 and the loop.  (refineRootBisection_midpoint: the variant that
\* answers a bracket without a sign change with its midpoint.)
refineRootBisection_midpoint(o, t0ms, t1ms, target) ==
    LET fa == fAt(o, target, t0ms)
        fb == fAt(o, target, t1ms)
    IN  IF fa = 0 THEN <<t0ms>>
        ELSE IF fb = 0 THEN <<t1ms>>
        ELSE IF SignMul(fa, fb) > 0 THEN <<FloorHalf(t0ms + t1ms)>>
        ELSE refineRootBisection_loop(o, target, t0ms, t1ms, fa, 0)
refineRootBisection(o, t0ms, t1ms, target) ==
    LET fa == fAt(o, target, t0ms)
        fb == fAt(o, target, t1ms)
    IN  IF fa = 0 THEN <<t0ms>>
        ELSE IF fb = 0 THEN <<t1ms>>
        ELSE IF SignMul(fa, fb) > 0 THEN <<>>      \* kein Vorzeichenwechsel
        ELSE refineRootBisection_loop(o, target, t0ms, t1ms, fa, 0)

(***************************************************************************)
(* The two root refinements applied to brackets drawn from bounded sets:   *)
(* brackets with a sign change, with a zero at an endpoint, and with two   *)
(* endpoint values of the same strict sign.                                *)
(***************************************************************************)
MaxWidthB == 3        \* widest bisectZero bracket, in steps
MaxHoursB == 24       \* widest refineRootBisection bracket, in hours

BzInputs ==
    { [o |-> o, a |-> a, b |-> a + w * (StepP \div 2)] :
        o \in { x \in OraclesP : x.P = 3 * StepP /\ x.m < StepP },
        a \in {JdStartP, JdStartP + StepP},
        w \in 1..(2 * MaxWidthB) }

PhaseOracles ==
    { [s0 |-> 28000000, m0 |-> m0, rs |-> 1, rm |-> 15] :
        m0 \in {27900000, 35900000, 9900000} }
MsPerHour == 3600000
RrInputs ==
    { [o |-> o, t0ms |-> t0, t1ms |-> t0 + h * MsPerHour, target |-> tg] :
        o \in PhaseOracles,
        t0 \in {0, 999, 7200000},
        h \in 1..MaxHoursB,
        tg \in {0, 35900000, 35990000, 100000, 7950000, 17900000, 18000000} }

InitB ==
    /\ bzIn = <<>> /\ bzOut = <<>> /\ pcBz = "call"
    /\ rrIn = <<>> /\ rrOut = <<>> /\ pcRr = "call"

\* bisectZero applied to one bracket.
call_bisectZero ==
    /\ pcBz = "call"
    /\ \E in \in BzInputs :
        /\ bzIn' = in
        /\ bzOut' = bisectZero(in.o, in.a, in.b)
    /\ pcBz' = "ret"
    /\ UNCHANGED <<rrIn, rrOut, pcRr>>
    /\ UNCHANGED othersB

\* refineRootBisection applied to one bracket.
call_refineRootBisection ==
    /\ pcRr = "call"
    /\ \E in \in RrInputs :
        /\ rrIn' = in
        /\ rrOut' = refineRootBisection(in.o, in.t0ms, in.t1ms, in.target)
    /\ pcRr' = "ret"
    /\ UNCHANGED <<bzIn, bzOut, pcBz>>
    /\ UNCHANGED othersB

NextB == call_bisectZero \/ call_refineRootBisection

InitSpecB == InitB /\ IdleR /\ IdleP /\ IdleG /\ IdleD /\ IdleC /\ IdleH /\ IdleJ /\ IdleN /\ IdleM /\ IdleS /\ IdleF /\ IdleL /\ IdleY /\ IdleT
SpecB == InitSpecB /\ [][NextB]_vars

(***************************************************************************)
(* Claims about root refinement on a bracket without a sign change.        *)
(***************************************************************************)
\* bisectZero has returned from a bracket whose endpoint values are finite
\* and of the same strict sign.
BzSameSign ==
    /\ pcBz = "ret"
    /\ drdt(bzIn.o, bzIn.a).fin /\ drdt(bzIn.o, bzIn.b).fin
    /\ SignMul(drdt(bzIn.o, bzIn.a).v, drdt(bzIn.o, bzIn.b).v) > 0

\* refineRootBisection has returned from such a bracket.
RrSameSign ==
    /\ pcRr = "ret"
    /\ SignMul(fAt(rrIn.o, rrIn.target, rrIn.t0ms), fAt(rrIn.o, rrIn.target, rrIn.t1ms)) > 0

GrNum == 4181
GrDen == 6765
TolG == 32            \* tolDays = 1 / 1440
DayG == 46080         \* one day
MaxItG == 80          \* it < 80
MaxDaysG == 10        \* widest initial bracket, in days

\* gr * w
GrMul(w) == (w * GrNum) \div GrDen

\* Observables that are strictly unimodal with their minimum at t0: the two
\* slopes of a V are 1:1, 3:1 and 1:3.
fValue(f, t) ==
    IF t < f.t0
    THEN (IF f.kind = "steepLeft" THEN 3 ELSE 1) * (f.t0 - t)
    ELSE (IF f.kind = "steepRight" THEN 3 ELSE 1) * (t - f.t0)

WidthsG == {DayG, DayG + DayG \div 2, 4 * DayG, MaxDaysG * DayG}
\* Where the minimum lies in a bracket of width w starting at 0.
MinimaG(w) == {0, 1, w \div 3, w \div 2, GrMul(w), w - GrMul(w), w - 1, w}
InputsG ==
    { [kind |-> k, t0 |-> t0, b |-> w] :
        k \in {"even", "steepLeft", "steepRight"},
        w \in WidthsG,
        t0 \in UNION {MinimaG(x) : x \in WidthsG} }

\* if (fd < fc) ... else ...: the branch that moves a.
\* (MoveLeftEnd_flipped: the variant with the comparison reversed.)
MoveLeftEnd_flipped(fc, fd) == fd > fc
MoveLeftEnd(fc, fd) == fd < fc

\* Lines 68-72.
InitG ==
    /\ \E in \in InputsG :
        /\ in.t0 <= in.b
        /\ fG = [kind |-> in.kind, t0 |-> in.t0]
        /\ aG = 0
        /\ bG = in.b
        /\ cG = in.b - GrMul(in.b - 0)
        /\ dG = 0 + GrMul(in.b - 0)
        /\ fcG = fValue([kind |-> in.kind, t0 |-> in.t0], in.b - GrMul(in.b - 0))
        /\ fdG = fValue([kind |-> in.kind, t0 |-> in.t0], 0 + GrMul(in.b - 0))
    /\ itG = 0
    /\ pcG = "loop"
    /\ retG = <<>>

\* One iteration of the for loop that does not break (lines 74-85).
goldenMin_iter ==
    /\ pcG = "loop"
    /\ itG < MaxItG
    /\ ~((bG - aG) <= TolG)
    /\ IF MoveLeftEnd(fcG, fdG)
       THEN /\ aG' = cG
            /\ cG' = dG
            /\ fcG' = fdG
            /\ dG' = cG + GrMul(bG - cG)
            /\ fdG' = fValue(fG, cG + GrMul(bG - cG))
            /\ bG' = bG
       ELSE /\ bG' = dG
            /\ dG' = cG
            /\ fdG' = fcG
            /\ cG' = dG - GrMul(dG - aG)
            /\ fcG' = fValue(fG, dG - GrMul(dG - aG))
            /\ aG' = aG
    /\ itG' = itG + 1
    /\ UNCHANGED <<fG, pcG, retG>>
    /\ UNCHANGED othersG

\* The loop ends (budget used up, or b - a <= tolDays) and (a + b) / 2 is returned.
goldenMin_return ==
    /\ pcG = "loop"
    /\ itG >= MaxItG \/ (bG - aG) <= TolG
    /\ retG' = <<(aG + bG) \div 2>>
    /\ pcG' = "done"
    /\ UNCHANGED <<fG, aG, bG, cG, dG, fcG, fdG, itG>>
    /\ UNCHANGED othersG

NextG == goldenMin_iter \/ goldenMin_return

InitSpecG == InitG /\ IdleR /\ IdleP /\ IdleB /\ IdleD /\ IdleC /\ IdleH /\ IdleJ /\ IdleN /\ IdleM /\ IdleS /\ IdleF /\ IdleL /\ IdleY /\ IdleT
SpecG == InitSpecG /\ [][NextG]_vars

(***************************************************************************)
(* Claims about goldenMin.                                                 *)
(***************************************************************************)
\* C8: for an observable that is strictly unimodal on the initial bracket
\* with its minimum at t0 in it, t0 stays inside [a, b] at every iteration,
\* the loop ends on the tolerance test before the iteration budget is used
\* up, and the returned midpoint is within the tolerance of t0.
C8_GoldenMinConverges ==
    /\ aG <= fG.t0 /\ fG.t0 <= bG
    /\ pcG = "done" =>
        /\ (bG - aG) <= TolG
        /\ itG < MaxItG
        /\ Abs(retG[1] - fG.t0) <= TolG

\* A 10-day bracket refined to the end, with the minimum strictly inside.
C8_Witness ==
    /\ pcG = "done" /\ itG >= 15
    /\ 0 < fG.t0 /\ fG.t0 < MaxDaysG * DayG

(***************************************************************************)
(* The de-duplication steps.  Each scan produces its candidates in scan    *)
(* order and keeps or drops each one as it is produced:                    *)
(*   phaseMin   findPhaseEventsInYear, trend variant (jonas 423-431),      *)
(*              jd in units of 0.1 day, separation 10 days;                *)
(*   phaseRoot  findPhaseEventsInYear, bisection variant (jonas 841-846),  *)
(*              jd in units of 0.1 day, separation 0.3 day;                *)
(*   returns    the phase-return handler (jonas 241-252), integer          *)
(*              milliseconds, separation 2 minutes;                        *)
(*   perigee    the yearly handler (perigaeum-year 295-301), which         *)
(*              collects date strings and then filters them by a Set.      *)
(***************************************************************************)
SepPhaseMin == 100    \* > 10 (days)
SepPhaseRoot == 3     \* > 0.3 (days)
SepReturns == 120000  \* > 2 * 60 * 1000 (ms)
MaxEventsD == 4       \* candidates per scan
MaxDatesD == 3        \* distinct dates a perigee may round to

\* The distances from one candidate to the next that the scan may produce.
GapsD(sep) == {0, 1, sep - 1, sep, sep + 1, 2 * sep}

\* !events.length || Math.abs(t - events[events.length - 1].jd) > sep
\* (Keep_inclusive: the variant with >= in place of >.)
Keep_inclusive(evs, t, sep) == Len(evs) = 0 \/ Abs(t - Last(evs)) >= sep
Keep(evs, t, sep) == Len(evs) = 0 \/ Abs(t - Last(evs)) > sep

\* if (keep) events.push(...)
\* (PushIfKept_front: the variant that puts the event in front.)
PushIfKept_front(evs, t, sep) == IF Keep(evs, t, sep) THEN <<t>> \o evs ELSE evs
PushIfKept(evs, t, sep) == IF Keep(evs, t, sep) THEN Append(evs, t) ELSE evs

\* perigees.filter(p => { if (seen.has(p.datum)) return false; seen.add(p.datum); return true; })
RECURSIVE FilterSeen_from(_, _)
FilterSeen_from(ps, seen) ==
    IF ps = <<>> THEN <<>>
    ELSE IF Head(ps) \in seen
         THEN FilterSeen_from(Tail(ps), seen)
         ELSE <<Head(ps)>> \o FilterSeen_from(Tail(ps), seen \cup {Head(ps)})
FilterSeen(ps) == FilterSeen_from(ps, {})

InitD ==
    /\ siteD \in {"phaseMin", "phaseRoot", "returns", "perigee"}
    /\ candD = <<>>
    /\ eventsD = <<>>
    /\ pcD = "scan"

\* The next candidate of a scan: the first one at time 0, a later one at a gap.
NextCandidates(sep) ==
    IF candD = <<>> THEN {0} ELSE {Last(candD) + g : g \in GapsD(sep)}

DedupStep(site, sep) ==
    /\ pcD = "scan"
    /\ siteD = site
    /\ Len(candD) < MaxEventsD
    /\ \E t \in NextCandidates(sep) :
        /\ candD' = Append(candD, t)
        /\ eventsD' = PushIfKept(eventsD, t, sep)
    /\ UNCHANGED <<siteD, pcD>>
    /\ UNCHANGED othersD

findPhaseEventsInYear_min_dedup == DedupStep("phaseMin", SepPhaseMin)
findPhaseEventsInYear_root_dedup == DedupStep("phaseRoot", SepPhaseRoot)
handler_returns_dedup == DedupStep("returns", SepReturns)

\* perigees.push({ datum }) for one window (perigaeum-year 288-293).
handler_perigee_push ==
    /\ pcD = "scan"
    /\ siteD = "perigee"
    /\ Len(candD) < MaxEventsD
    /\ \E d \in 1..MaxDatesD : candD' = Append(candD, d)
    /\ UNCHANGED <<siteD, eventsD, pcD>>
    /\ UNCHANGED othersD

\* The Set filter after the loop over the windows (perigaeum-year 295-301).
handler_perigee_filter ==
    /\ pcD = "scan"
    /\ siteD = "perigee"
    /\ eventsD' = FilterSeen(candD)
    /\ pcD' = "done"
    /\ UNCHANGED <<siteD, candD>>
    /\ UNCHANGED othersD

\* The end of a scan.
scan_end ==
    /\ pcD = "scan"
    /\ siteD # "perigee"
    /\ pcD' = "done"
    /\ UNCHANGED <<siteD, candD, eventsD>>
    /\ UNCHANGED othersD

NextD ==
    \/ findPhaseEventsInYear_min_dedup
    \/ findPhaseEventsInYear_root_dedup
    \/ handler_returns_dedup
    \/ handler_perigee_push
    \/ handler_perigee_filter
    \/ scan_end

InitSpecD == InitD /\ IdleR /\ IdleP /\ IdleB /\ IdleG /\ IdleC /\ IdleH /\ IdleJ /\ IdleN /\ IdleM /\ IdleS /\ IdleF /\ IdleL /\ IdleY /\ IdleT
SpecD == InitSpecD /\ [][NextD]_vars

(***************************************************************************)
(* Claims about de-duplication.                                            *)
(***************************************************************************)
\* The separation that the running step uses.
SepD ==
    IF siteD = "phaseMin" THEN SepPhaseMin
    ELSE IF siteD = "phaseRoot" THEN SepPhaseRoot
    ELSE SepReturns

\* A step that handles one candidate while an event has been kept already.
DedupStepD ==
    /\ pcD = "scan" /\ siteD # "perigee"
    /\ Len(eventsD) > 0 /\ Len(candD') = Len(candD) + 1

\* C9 as stated: a candidate exactly minSeparation after the previously kept
\* event is kept, and one less than minSeparation after it is dropped.
C9_ExactSeparationKept ==
    [][ DedupStepD =>
          LET gap == Last(candD') - Last(eventsD)
          IN  /\ gap = SepD => eventsD' = Append(eventsD, Last(candD'))
              /\ (0 <= gap /\ gap < SepD) => eventsD' = eventsD ]_vars

\* C9 amended: a candidate is kept exactly when it lies more than
\* minSeparation after the previously kept event; one that lies exactly
\* minSeparation after it, or less, is dropped.
C9_KeptIffStrictlyLater ==
    [][ DedupStepD =>
          LET gap == Last(candD') - Last(eventsD)
          IN  /\ gap > SepD => eventsD' = Append(eventsD, Last(candD'))
              /\ (0 <= gap /\ gap <= SepD) => eventsD' = eventsD ]_vars

\* The last candidate lay exactly minSeparation after the kept event and was
\* dropped, after an earlier one had been kept behind the first.
C9_Witness ==
    /\ siteD = "returns" /\ Len(eventsD) >= 2 /\ Len(candD) > Len(eventsD)
    /\ Last(candD) - Last(eventsD) = SepReturns

\* The rule of the claim applied to a whole sequence: drop an event within
\* sep of the previously kept one.
RECURSIVE DropWithin(_, _, _)
DropWithin(todo, kept, sep) ==
    IF todo = <<>> THEN kept
    ELSE IF kept # <<>> /\ Abs(Head(todo) - Last(kept)) <= sep
         THEN DropWithin(Tail(todo), kept, sep)
         ELSE DropWithin(Tail(todo), Append(kept, Head(todo)), sep)

\* Drop a date that was seen before.
RECURSIVE DropSeen(_, _)
DropSeen(todo, kept) ==
    IF todo = <<>> THEN kept
    ELSE IF \E i \in 1..Len(kept) : kept[i] = Head(todo)
         THEN DropSeen(Tail(todo), kept)
         ELSE DropSeen(Tail(todo), Append(kept, Head(todo)))

\* sub is what remains of seq when some of its elements are removed.
RECURSIVE IsSubSeq(_, _)
IsSubSeq(sub, seq) ==
    IF sub = <<>> THEN TRUE
    ELSE IF seq = <<>> THEN FALSE
    ELSE IF Head(sub) = Head(seq) THEN IsSubSeq(Tail(sub), Tail(seq))
    ELSE IsSubSeq(sub, Tail(seq))

\* C10: what a de-duplication step has kept is the rule applied to its
\* input, applying the rule to it again returns it unchanged, and it holds
\* the kept events in the order of the input.
C10_DedupIdempotentOrdered ==
    /\ siteD \in {"phaseMin", "phaseRoot", "returns"} =>
        /\ eventsD = DropWithin(candD, <<>>, SepD)
        /\ DropWithin(eventsD, <<>>, SepD) = eventsD
        /\ IsSubSeq(eventsD, candD)
    /\ (siteD = "perigee" /\ pcD = "done") =>
        /\ eventsD = DropSeen(candD, <<>>)
        /\ DropSeen(eventsD, <<>>) = eventsD
        /\ IsSubSeq(eventsD, candD)

\* A scan that dropped a candidate and kept a later one.
C10_Witness ==
    /\ pcD = "done" /\ Len(eventsD) >= 2 /\ Len(candD) > Len(eventsD)
    /\ Last(candD) = Last(eventsD)

(***************************************************************************)
(* classifyEvent: the 10% rule on the chosen perigee/apogee pair.          *)
(* Distances are integers in units of 0.005 (the distance unit of the      *)
(* caller cancels out of the rule); a comparison with lo + 0.10 * w is     *)
(* made on both sides multiplied by 10.  A distance is a record [fin, v].  *)
(***************************************************************************)
MaxDistC == 224       \* largest event distance explored (1.12)

\* distEvent <= lo + 0.10 * w and distEvent >= hi - 0.10 * w; a comparison
\* with a non-finite operand is false.
\* (AtMostTenthAbove_strict: the variant with < in place of <=.)
AtMostTenthAbove_strict(x, lo, w) == x.fin /\ 10 * x.v < 10 * lo + w
AtMostTenthAbove(x, lo, w) == x.fin /\ 10 * x.v <= 10 * lo + w
AtLeastTenthBelow(x, hi, w) == x.fin /\ 10 * x.v >= 10 * hi - w

\* First variant, lines 590-601.  span = Math.abs(apoUse.distAU -
\* perUse.distAU) is NaN when a distance is, and then !(span > 0) holds.
classifyEvent(perUse, apoUse, distEvent) ==
    IF ~(perUse.fin /\ apoUse.fin) THEN "normal"
    ELSE LET span == Abs(apoUse.v - perUse.v)
             distMin == Min(perUse.v, apoUse.v)
             distMax == Max(perUse.v, apoUse.v)
         IN  IF ~(span > 0) THEN "normal"
             ELSE IF AtMostTenthAbove(distEvent, distMin, distMax - distMin) THEN "super"
             ELSE IF AtLeastTenthBelow(distEvent, distMax, distMax - distMin) THEN "mini"
             ELSE "normal"

\* Second variant, lines 1024-1047: thresholds from perUse and apoUse when
\* perUse is the smaller distance, from distMin and distMax otherwise.
classifyEvent_second(perUse, apoUse, distEvent) ==
    IF ~(perUse.fin /\ apoUse.fin) THEN "normal"
    ELSE LET span == Abs(apoUse.v - perUse.v)
             distMin == Min(perUse.v, apoUse.v)
             distMax == Max(perUse.v, apoUse.v)
         IN  IF ~(span > 0) THEN "normal"
             ELSE IF perUse.v <= apoUse.v
                  THEN IF AtMostTenthAbove(distEvent, perUse.v, span) THEN "super"
                       ELSE IF AtLeastTenthBelow(distEvent, apoUse.v, span) THEN "mini"
                       ELSE "normal"
                  ELSE IF AtMostTenthAbove(distEvent, distMin, distMax - distMin) THEN "super"
                       ELSE IF AtLeastTenthBelow(distEvent, distMax, distMax - distMin) THEN "mini"
                       ELSE "normal"

\* The distances of the chosen perigee and apogee (0.90, 1.00, 1.10 or
\* non-finite, in either role) and of the event.
PairDistC == {Fin(180), Fin(200), Fin(220), NaN}
EventDistC == {Fin(d) : d \in 176..MaxDistC} \cup {NaN}

InitC ==
    /\ ceIn \in [per : PairDistC, apo : PairDistC, dist : EventDistC]
    /\ ceKind = <<>>
    /\ ceKind2 = <<>>

call_classifyEvent ==
    /\ ceKind = <<>>
    /\ ceKind' = <<classifyEvent(ceIn.per, ceIn.apo, ceIn.dist)>>
    /\ UNCHANGED <<ceIn, ceKind2>>
    /\ UNCHANGED othersC

call_classifyEvent_second ==
    /\ ceKind2 = <<>>
    /\ ceKind2' = <<classifyEvent_second(ceIn.per, ceIn.apo, ceIn.dist)>>
    /\ UNCHANGED <<ceIn, ceKind>>
    /\ UNCHANGED othersC

NextC == call_classifyEvent \/ call_classifyEvent_second

InitSpecC == InitC /\ IdleR /\ IdleP /\ IdleB /\ IdleG /\ IdleD /\ IdleH /\ IdleJ /\ IdleN /\ IdleM /\ IdleS /\ IdleF /\ IdleL /\ IdleY /\ IdleT
SpecC == InitSpecC /\ [][NextC]_vars

(***************************************************************************)
(* Claims about classifyEvent.                                             *)
(***************************************************************************)
\* The 10% rule as the claim states it, for finite distances lo <= hi of the
\* pair and an event distance d (tenths of span compared after scaling by 10).
TenPercentRule(lo, hi, d) ==
    LET span == hi - lo
    IN  IF span <= 0 THEN "normal"
        ELSE IF 10 * d <= 10 * lo + span THEN "super"
        ELSE IF 10 * d >= 10 * hi - span THEN "mini"
        ELSE "normal"

\* C11: for every finite event distance and pair, either variant returns
\* what the 10% rule gives for min and max of the pair's distances (normal
\* for a span of zero), both variants return the same kind on all inputs, and
\* with min 0.90 and max 1.10 the distances 0.905, 1.095 and 1.00 are super,
\* mini and normal.
C11_TenPercentRule ==
    /\ (ceKind # <<>> /\ ceKind2 # <<>>) => ceKind = ceKind2
    /\ (ceKind # <<>> /\ ceIn.per.fin /\ ceIn.apo.fin /\ ceIn.dist.fin) =>
         LET lo == Min(ceIn.per.v, ceIn.apo.v)
             hi == Max(ceIn.per.v, ceIn.apo.v)
         IN  /\ ceKind[1] = TenPercentRule(lo, hi, ceIn.dist.v)
             /\ (lo = 180 /\ hi = 220 /\ ceIn.dist.v = 181) => ceKind[1] = "super"
             /\ (lo = 180 /\ hi = 220 /\ ceIn.dist.v = 219) => ceKind[1] = "mini"
             /\ (lo = 180 /\ hi = 220 /\ ceIn.dist.v = 200) => ceKind[1] = "normal"

\* Both variants have classified an event lying exactly on the Near-Minimum
\* threshold (0.92 for the pair 0.90 / 1.10) as super.
C11_Witness ==
    /\ ceKind = <<"super">> /\ ceKind2 = <<"super">>
    /\ ceIn.per = Fin(180) /\ ceIn.apo = Fin(220) /\ ceIn.dist = Fin(184)

(***************************************************************************)
(* The yearly perigee handler (src/api/perigaeum-year.js): the variant     *)
(* with guarded oracle access (lines 1-333, "guarded") and the variant     *)
(* with a try/catch per body (lines 601-948, "tryCatch").                  *)
(*                                                                         *)
(* Times are in units of 1/46080 day, counted from jdCalcStart =           *)
(* jdYearStart - 20 days; findRetroWindows works in its unit of 1/16 day   *)
(* from the same origin.  A calendar date is held as the number of the     *)
(* day counted from 01.01. of the year (jdYearStart is 0h UTC of that      *)
(* day); the 1e-6 day that jdToCalendar adds before taking the day is far  *)
(* below the time unit.  The year lasts YearDaysH days.                    *)
(***************************************************************************)
YearDaysH == 3        \* length of the calendar year, in days
PadRetro == 20        \* pad = 20 / padRetro = 20
PadChiron == 60       \* padChiron = 60
CoarseStep == 11520   \* coarseStep = 0.25 day
FineHalf == 2         \* bestJd -+ 2.0 days
FineHalfGlobal == 5   \* bestJd -+ 5.0 days

\* One unit of findRetroWindows' time in units of the handler's time.
RtoG == DayG \div (8 * StepR)

jdYearStartH == PadRetro * DayG
jdYearEndH == (PadRetro + YearDaysH) * DayG
jdCalcStartH == jdYearStartH - PadRetro * DayG
jdCalcEndH == jdYearEndH + PadRetro * DayG

\* formatDateDE(jdToCalendar(jd)), as a day number.
jdToCalendar(jd) == (jd - jdYearStartH) \div DayG

\* What swe.calc_ut does for a body, o.fail: "none" (values), "throws" (an
\* exception), "invalid" (undefined in place of the array), "nan" (an array
\* of NaN), "nanDist" (an array whose distance is NaN).
\* safeCalcUt of the tryCatch variant throws on an exception and on
\* undefined; the guarded variant's accessors catch everything.
safeCalcUt_throws(variant, o) ==
    variant = "tryCatch" /\ o.fail \in {"throws", "invalid"}

\* getDist(jd) where it returns: pos[2], NaN for every failure.
getDistH(o, jd) ==
    IF o.fail = "none" THEN getDist([m |-> o.m, P |-> o.P, nan |-> o.nan], jd) ELSE NaN

\* getLonSpeed(jd) where it returns: pos[3]; retrograde (-3) inside the
\* intervals of o.retro, direct (+3) outside; jd in units of 1/16 day.
getLonSpeedH(o, jd) ==
    IF o.fail \in {"none", "nanDist"}
    THEN IF \E i \in 1..Len(o.retro) : o.retro[i][1] <= jd /\ jd < o.retro[i][2]
         THEN Fin(0 - 3) ELSE Fin(3)
    ELSE NaN

\* x < y on numbers that may be NaN.
LessNum(x, y) == x.fin /\ y.fin /\ x.v < y.v

\* goldenMin(getDist, a, b, 1 / 1440) as a function: the loop of lines 74-85.
RECURSIVE goldenMin_loop(_, _, _, _, _, _, _, _)
goldenMin_loop(o, a, b, c, d, fc, fd, it) ==
    IF it >= MaxItG \/ (b - a) <= TolG
    THEN (a + b) \div 2
    ELSE IF fc.fin /\ fd.fin /\ MoveLeftEnd(fc.v, fd.v)
         THEN LET d1 == c + GrMul(b - c)
              IN  goldenMin_loop(o, c, b, d, d1, fd, getDistH(o, d1), it + 1)
         ELSE LET c1 == d - GrMul(d - a)
              IN  goldenMin_loop(o, a, d, c1, c, getDistH(o, c1), fc, it + 1)

goldenMin(o, a, b) ==
    LET c == b - GrMul(b - a)
        d == a + GrMul(b - a)
    IN  goldenMin_loop(o, a, b, c, d, getDistH(o, c), getDistH(o, d), 0)

\* The coarse scan of minDistanceInWindow and globalMinWithPad.  One
\* iteration of its for loop, at jd = a + k * coarseStep, on the state
\* [bestJd, bestD]: the guarded variant takes d when it is finite and bestD
\* is not, or d < bestD; the tryCatch variant takes d when d < bestD.
coarseSample(variant, o, a, b, st, k) ==
    LET j == Min(a + k * CoarseStep, b)
        d == getDistH(o, j)
        take == IF variant = "guarded"
                THEN d.fin /\ ((~st.bestD.fin) \/ d.v < st.bestD.v)
                ELSE LessNum(d, st.bestD)
    IN  IF take THEN [bestJd |-> j, bestD |-> d] ELSE st

\* The iterations lo..hi of the loop, in order (the range is halved so that
\* the first half is evaluated before the second is entered).
RECURSIVE coarseScan(_, _, _, _, _, _, _)
coarseScan(variant, o, a, b, lo, hi, st) ==
    IF lo > hi THEN st
    ELSE IF lo = hi THEN coarseSample(variant, o, a, b, st, lo)
    ELSE LET mid == (lo + hi) \div 2
             st1 == coarseScan(variant, o, a, b, lo, mid, st)
         IN  IF st1.bestJd >= a THEN coarseScan(variant, o, a, b, mid + 1, hi, st1) ELSE st1

\* let bestJd = a; let bestD = getDist(a); for (jd = a; jd <= b + 1e-9; jd += coarseStep)
coarseBest(variant, o, a, b) ==
    coarseScan(variant, o, a, b, 0, (b - a) \div CoarseStep,
               [bestJd |-> a, bestD |-> getDistH(o, a)]).bestJd

minDistanceInWindow(variant, o, a, b) ==
    LET bestJd == coarseBest(variant, o, a, b)
        left == Max(a, bestJd - FineHalf * DayG)
        right == Min(b, bestJd + FineHalf * DayG)
    IN  goldenMin(o, left, right)

\* globalMinWithPad(getDist, jdYearStart, jdYearEnd, padDays): [jdMin, inYear]
globalMinWithPad(o, padDays) ==
    LET a == jdYearStartH - padDays * DayG
        b == jdYearEndH + padDays * DayG
        bestJd == coarseBest("tryCatch", o, a, b)
        left == Max(a, bestJd - FineHalfGlobal * DayG)
        right == Min(b, bestJd + FineHalfGlobal * DayG)
        jdMin == goldenMin(o, left, right)
    IN  [jdMin |-> jdMin, inYear |-> (jdMin >= jdYearStartH /\ jdMin < jdYearEndH)]

\* The sample test of findRetroWindows: the guarded variant skips a
\* non-finite or near-zero speed, the tryCatch variant skips on
\* Math.abs(sp) <= epsSpeed only, which is false for NaN.
SkipSample(variant, s) ==
    IF variant = "guarded" THEN IsNeutral(s) ELSE s.fin /\ Abs(s.v) <= EpsSpeed

\* findRetroWindows(getLonSpeed, jdCalcStart, jdCalcEnd) as a function, in
\* units of 1/16 day from jdCalcStart.  One iteration of its for loop, at
\* jd = jdStart + k * step, on the state [inRetro, startJd, retroStreak,
\* directStreak, windows].
retroSample(variant, o, jdEnd, st, k) ==
    LET curJd == Min(JdStartR + k * StepR, jdEnd)
        s == getLonSpeedH(o, curJd)
        isRetro == s.fin /\ s.v < 0
        sk == Streaks(isRetro, st.retroStreak, st.directStreak)
        flipIn == (~st.inRetro) /\ sk[1] >= Need
        inRetro1 == st.inRetro \/ flipIn
        startJd1 == IF flipIn THEN <<BackDate(curJd)>> ELSE st.startJd
        flipOut == inRetro1 /\ sk[2] >= Need
    IN  IF SkipSample(variant, s) THEN st
        ELSE [inRetro |-> inRetro1 /\ ~flipOut,
              startJd |-> IF flipOut THEN <<>> ELSE startJd1,
              retroStreak |-> sk[1],
              directStreak |-> sk[2],
              windows |-> IF flipOut
                          THEN Append(st.windows, <<startJd1[1], curJd>>)
                          ELSE st.windows]

\* The iterations lo..hi of the loop, in order.
RECURSIVE retroScan(_, _, _, _, _, _)
retroScan(variant, o, jdEnd, lo, hi, st) ==
    IF lo > hi THEN st
    ELSE IF lo = hi THEN retroSample(variant, o, jdEnd, st, lo)
    ELSE LET mid == (lo + hi) \div 2
             st1 == retroScan(variant, o, jdEnd, lo, mid, st)
         IN  IF st1.retroStreak >= 0 THEN retroScan(variant, o, jdEnd, mid + 1, hi, st1) ELSE st1

\* The loop over jd = jdStart, jdStart + step, ... <= jdEnd, the terminal
\* push and the filter.
findRetroWindows(variant, o, jdEnd) ==
    LET st == retroScan(variant, o, jdEnd, 0, (jdEnd - JdStartR) \div StepR,
                        [inRetro |-> FALSE, startJd |-> <<>>, retroStreak |-> 0,
                         directStreak |-> 0, windows |-> <<>>])
    IN  FilterWindows(IF st.inRetro /\ st.startJd # <<>>
                      THEN Append(st.windows, <<st.startJd[1], jdEnd>>)
                      ELSE st.windows)

\* BODIES, reduced to one body of each mode: the Sun, one planet (Mercury;
\* Venus to Pluto are handled by the same branch) and Chiron, which is a
\* RETRO body in the guarded variant and CHIRON_GLOBAL in the tryCatch one.
BODIES(variant) ==
    << [id |-> "SE_SUN", mode |-> "SUN"],
       [id |-> "SE_MERCURY", mode |-> "RETRO"],
       [id |-> "SE_CHIRON", mode |-> IF variant = "guarded" THEN "RETRO" ELSE "CHIRON_GLOBAL"] >>

\* Retrograde intervals [from, to) in units of 1/16 day from jdCalcStart
\* (the year starts at 320): none; one in the pad before the year; one
\* across the start of the year; two that a direct run of three samples
\* separates, the first window ending at 0h of the third day of the year;
\* one across the end of the year.
RetroPatternsH ==
    { <<>>,
      << <<160, 200>> >>,
      << <<300, 340>> >>,
      << <<324, 348>>, <<354, 16 * (PadRetro + YearDaysH) + 12>> >>,
      << <<16 * (PadRetro + YearDaysH) - 8, 16 * (PadRetro + YearDaysH) + 24>> >> }

\* The distance minimum (the distance is a triangle wave of period 64
\* days): in the pad before the year, inside the year, at 0h of its third
\* day, and five time units before its end.
DistMinimaH ==
    { jdYearStartH - DayG \div 4,
      jdYearStartH + DayG + 1234,
      jdYearStartH + 2 * DayG,
      jdYearEndH - 5 }

FailModesH == {"throws", "invalid", "nan", "nanDist"}

OracleH(fail, retro, m) ==
    [fail |-> fail, retro |-> retro, m |-> m, P |-> 64 * DayG, nan |-> <<0, 0>>]

\* The oracles a body of a mode may meet; the speed is not read for the Sun
\* and for CHIRON_GLOBAL.
OraclesH(mode) ==
    { OracleH("none", r, m) :
        r \in (IF mode = "RETRO" THEN RetroPatternsH ELSE {<<>>}), m \in DistMinimaH }
    \cup { OracleH(f, <<>>, jdYearStartH + DayG + 1234) : f \in FailModesH }
    \cup (IF mode = "RETRO"
          THEN {OracleH("nanDist", << <<324, 348>> >>, jdYearStartH + DayG + 1234)}
          ELSE {})

\* jdMin >= jdYearStart && jdMin < jdYearEnd
\* (InYear_always: the variant without the test.)
InYear_always(jdMin) == TRUE
InYear(jdMin) == jdMin >= jdYearStartH /\ jdMin < jdYearEndH

\* for (const [a0, b0] of windows) { ... perigees.push({ datum }) }
\* (windowPerigees_unshift: the variant that puts a new date in front.)
RECURSIVE windowPerigees_unshift(_, _, _, _)
windowPerigees_unshift(variant, o, ws, perigees) ==
    IF ws = <<>> THEN perigees
    ELSE LET jdMin == minDistanceInWindow(variant, o, Head(ws)[1] * RtoG, Head(ws)[2] * RtoG)
         IN  windowPerigees_unshift(variant, o, Tail(ws),
                                    IF InYear(jdMin)
                                    THEN <<jdToCalendar(jdMin)>> \o perigees
                                    ELSE perigees)

RECURSIVE windowPerigees(_, _, _, _)
windowPerigees(variant, o, ws, perigees) ==
    IF ws = <<>> THEN perigees
    ELSE LET jdMin == minDistanceInWindow(variant, o, Head(ws)[1] * RtoG, Head(ws)[2] * RtoG)
         IN  windowPerigees(variant, o, Tail(ws),
                            IF InYear(jdMin)
                            THEN Append(perigees, jdToCalendar(jdMin))
                            ELSE perigees)

\* The RETRO branch: windows, one minimum per window, the year test, the Set filter.
retroPerigees(variant, o) ==
    FilterSeen(windowPerigees(variant, o,
                              findRetroWindows(variant, o, 16 * (YearDaysH + 2 * PadRetro)),
                              <<>>))

\* One iteration of the loop over BODIES in the guarded variant (lines
\* 255-323): the entry pushed to results.
bodyEntry_guarded(body, o) ==
    LET testDist == getDistH(o, jdYearStartH)
        testSpd == IF body.mode = "RETRO" THEN getLonSpeedH(o, 16 * PadRetro) ELSE Fin(0)
    IN  IF (~testDist.fin) \/ (body.mode = "RETRO" /\ ~testSpd.fin)
        THEN [body |-> body.id, perigees |-> <<>>, info |-> "notComputable"]
        ELSE LET perigees ==
                     IF body.mode = "SUN"
                     THEN <<jdToCalendar(minDistanceInWindow("guarded", o, jdYearStartH, jdYearEndH))>>
                     ELSE retroPerigees("guarded", o)
             IN  IF Len(perigees) = 0
                 THEN [body |-> body.id, perigees |-> <<>>, info |-> "noPerigee"]
                 ELSE [body |-> body.id, perigees |-> perigees, info |-> "null"]

\* One iteration in the tryCatch variant (lines 864-930): the entry pushed
\* by the try block, or by the catch block when an oracle access throws.
bodyEntry_tryCatch(body, o) ==
    IF safeCalcUt_throws("tryCatch", o)
    THEN [body |-> body.id, perigees |-> <<>>, info |-> "error"]
    ELSE IF body.mode = "SUN"
    THEN [body |-> body.id,
          perigees |-> <<jdToCalendar(minDistanceInWindow("tryCatch", o, jdYearStartH, jdYearEndH))>>,
          info |-> "null"]
    ELSE IF body.mode = "CHIRON_GLOBAL"
    THEN LET g == globalMinWithPad(o, PadChiron)
         IN  IF g.inYear
             THEN [body |-> body.id, perigees |-> <<jdToCalendar(g.jdMin)>>, info |-> "null"]
             ELSE [body |-> body.id, perigees |-> <<>>, info |-> "noPerigee"]
    ELSE LET perigees == retroPerigees("tryCatch", o)
         IN  [body |-> body.id, perigees |-> perigees,
              info |-> IF Len(perigees) = 0 THEN "noPerigee" ELSE "null"]

bodyEntry(variant, body, o) ==
    IF variant = "guarded" THEN bodyEntry_guarded(body, o) ELSE bodyEntry_tryCatch(body, o)

\* After setCorsHeaders and the OPTIONS shortcut: const swe = new SwissEph().
InitH ==
    /\ variantH \in {"guarded", "tryCatch"}
    /\ pcH = "validate"
    /\ sweH = "open"
    /\ oraclesH = <<>>
    /\ resultsH = <<>>
    /\ totalCountH = 0
    /\ respH = <<>>

\* parseInt(yearParam) and the range test: 400 for a year that is not a
\* number in 1900..2050.
handler_validate ==
    /\ pcH = "validate"
    /\ \E yearOk \in BOOLEAN :
        IF yearOk
        THEN pcH' = "init" /\ respH' = respH
        ELSE pcH' = "finally" /\ respH' = <<[status |-> 400, ok |-> FALSE]>>
    /\ UNCHANGED <<variantH, sweH, oraclesH, resultsH, totalCountH>>
    /\ UNCHANGED othersH

\* await swe.initSwissEph(), the calc_ut and set_ephe_path tests and the two
\* julday calls: an exception reaches the outer catch (500), a missing
\* method returns 500.
handler_init ==
    /\ pcH = "init"
    /\ \E outcome \in {"ok", "throws", "noCalcUt", "noSetEphePath"} :
        IF outcome = "ok"
        THEN pcH' = "bodies" /\ respH' = respH
        ELSE pcH' = "finally" /\ respH' = <<[status |-> 500, ok |-> FALSE]>>
    /\ UNCHANGED <<variantH, sweH, oraclesH, resultsH, totalCountH>>
    /\ UNCHANGED othersH

\* One iteration of for (const body of BODIES).
handler_body ==
    /\ pcH = "bodies"
    /\ Len(resultsH) < Len(BODIES(variantH))
    /\ LET body == BODIES(variantH)[Len(resultsH) + 1]
       IN  \E o \in OraclesH(body.mode) :
             LET entry == bodyEntry(variantH, body, o)
             IN  /\ oraclesH' = Append(oraclesH, o)
                 /\ resultsH' = Append(resultsH, entry)
                 /\ totalCountH' = totalCountH + Len(entry.perigees)
    /\ UNCHANGED <<variantH, pcH, sweH, respH>>
    /\ UNCHANGED othersH

\* return res.status(200).json({ ok: true, year, totalCount, bodies: results })
handler_respond ==
    /\ pcH = "bodies"
    /\ Len(resultsH) = Len(BODIES(variantH))
    /\ respH' = <<[status |-> 200, ok |-> TRUE]>>
    /\ pcH' = "finally"
    /\ UNCHANGED <<variantH, sweH, oraclesH, resultsH, totalCountH>>
    /\ UNCHANGED othersH

\* finally { try { if (typeof swe.close === "function") swe.close(); } catch (_) {} }
handler_finally ==
    /\ pcH = "finally"
    /\ sweH' = "closed"
    /\ pcH' = "done"
    /\ UNCHANGED <<variantH, oraclesH, resultsH, totalCountH, respH>>
    /\ UNCHANGED othersH

NextH ==
    \/ handler_validate
    \/ handler_init
    \/ handler_body
    \/ handler_respond
    \/ handler_finally

InitSpecH == InitH /\ IdleR /\ IdleP /\ IdleB /\ IdleG /\ IdleD /\ IdleC /\ IdleJ /\ IdleN /\ IdleM /\ IdleS /\ IdleF /\ IdleL /\ IdleY /\ IdleT
SpecH == InitSpecH /\ [][NextH]_vars

(***************************************************************************)
(* Claims about the yearly perigee handler.                                *)
(***************************************************************************)
\* The loop over BODIES has been entered.
BodiesStartedH == pcH \in {"bodies", "finally", "done"} /\ Len(oraclesH) > 0

\* The oracle failed for body i: it threw or it returned unusable data.
FailedH(i) == oraclesH[i].fail # "none"

\* The number of perigees in the first n entries of results.
RECURSIVE PerigeeCount(_, _)
PerigeeCount(rs, n) == IF n = 0 THEN 0 ELSE PerigeeCount(rs, n - 1) + Len(rs[n].perigees)

\* C12: when the oracle throws or returns unusable data for a body, the
\* response is 200 with ok: true, the entry of that body has no perigee and
\* an info text, and the entry of every other body and totalCount are what
\* the other bodies' oracles give on their own.
C12_FailingBodyIsolated ==
    BodiesStartedH =>
        /\ respH # <<>> => respH = <<[status |-> 200, ok |-> TRUE]>>
        /\ \A i \in 1..Len(resultsH) :
             FailedH(i) => (resultsH[i].perigees = <<>> /\ resultsH[i].info # "null")
        /\ \A i \in 1..Len(resultsH) :
             (~FailedH(i)) => resultsH[i] = bodyEntry(variantH, BODIES(variantH)[i], oraclesH[i])
        /\ totalCountH = PerigeeCount(resultsH, Len(resultsH))

(***************************************************************************)
(* The phase-return handler (src/api/jonas-mondphasen-year.js 131-275).    *)
(* Times are integer milliseconds counted from startDate, angles are       *)
(* integers in units of 1e-5 degree, the oracle is one of PhaseOracles.    *)
(***************************************************************************)
MaxHoursJ == 30       \* endDate - startDate, in hours
TolDefault == 20000   \* tol default 0.2
TolLow == 1000        \* Math.max(0.01, ...)
TolHigh == 500000     \* Math.min(5, ...)
StepDefault == 6      \* stepH default 6
StepLow == 1          \* Math.max(1, ...)
StepHigh == 24        \* Math.min(24, ...)

\* tolDeg ? Math.max(0.01, Math.min(5, toNumberOrThrow(tolDeg))) : 0.2, with
\* <<>> for a missing parameter.
tolOf(tolDeg) == IF tolDeg = <<>> THEN TolDefault ELSE Max(TolLow, Min(TolHigh, tolDeg[1]))

\* stepHours ? Math.max(1, Math.min(24, toNumberOrThrow(stepHours))) : 6
stepHOf(stepHours) ==
    IF stepHours = <<>> THEN StepDefault ELSE Max(StepLow, Min(StepHigh, stepHours[1]))

\* Math.abs(r.f) < tol
\* (IsReturn_any: the variant that reports every refined root.)
IsReturn_any(f, tol) == TRUE
IsReturn(f, tol) == Abs(f) < tol

\* The datetime_utc of the returns pushed so far, as milliseconds.
RECURSIVE TimesOf(_)
TimesOf(rs) == IF rs = <<>> THEN <<>> ELSE <<Head(rs).t>> \o TimesOf(Tail(rs))

\* The query parameters tolDeg and stepHours, and the phase at birth.
TolParamsJ == {<<>>, <<100>>, <<20000>>, <<1000000>>}
StepParamsJ == {<<>>, <<0>>, <<3>>, <<30>>}
TargetsJ == {0, 35900000, 100000, 1160000, 7950000, 17900000, 18000000}

\* The Sun's and the Moon's longitude: the oracles of refineRootBisection,
\* and one whose phase angle passes the full circle within the scan and is
\* 11.6 degrees one hour after its start.
OraclesJ == PhaseOracles \cup {[s0 |-> 28000000, m0 |-> 27900000, rs |-> 1, rm |-> 351]}

InitJ ==
    /\ pcJ = "precheck"
    /\ sweJ = "none"
    /\ respJ = <<>>
    /\ oracleJ = <<>>
    /\ targetJ = 0
    /\ tolJ = 0
    /\ stepMsJ = 0
    /\ endJ = 0
    /\ tPrevJ = 0
    /\ prevJ = 0
    /\ tJ = 0
    /\ returnsJ = <<>>

\* applyCors and the tests before the oracle is created: preflight (204),
\* origin not allowed (403), method not GET (405).
jonas_precheck ==
    /\ pcJ = "precheck"
    /\ \E outcome \in {"pass", "options", "forbidden", "notGet"} :
        IF outcome = "pass"
        THEN pcJ' = "new" /\ respJ' = respJ
        ELSE /\ pcJ' = "done"
             /\ respJ' = <<[status |-> IF outcome = "options" THEN 204
                                       ELSE IF outcome = "forbidden" THEN 403 ELSE 405,
                            ok |-> FALSE]>>
    /\ UNCHANGED <<sweJ, oracleJ, targetJ, tolJ, stepMsJ, endJ, tPrevJ, prevJ, tJ, returnsJ>>
    /\ UNCHANGED othersJ

\* const swe = new SwissEph(); await swe.initSwissEph(); an exception
\* reaches the catch block (500).
jonas_new ==
    /\ pcJ = "new"
    /\ sweJ' = "open"
    /\ \E initOk \in BOOLEAN :
        IF initOk
        THEN pcJ' = "params" /\ respJ' = respJ
        ELSE pcJ' = "done" /\ respJ' = <<[status |-> 500, ok |-> FALSE]>>
    /\ UNCHANGED <<oracleJ, targetJ, tolJ, stepMsJ, endJ, tPrevJ, prevJ, tJ, returnsJ>>
    /\ UNCHANGED othersJ

\* The query parameters (lines 169-212): a missing birth or year and end <=
\* start return 400, a value that does not parse throws (500); otherwise the
\* scan is set up: tPrev = startDate, prev = fAtDate(tPrev), t = startDate + stepMs.
jonas_params ==
    /\ pcJ = "params"
    /\ \/ /\ \E status \in {400, 500} : respJ' = <<[status |-> status, ok |-> FALSE]>>
          /\ pcJ' = "done"
          /\ UNCHANGED <<oracleJ, targetJ, tolJ, stepMsJ, endJ, tPrevJ, prevJ, tJ>>
       \/ \E o \in OraclesJ, target \in TargetsJ, tolDeg \in TolParamsJ, stepHours \in StepParamsJ :
            /\ oracleJ' = o
            /\ targetJ' = target
            /\ tolJ' = tolOf(tolDeg)
            /\ stepMsJ' = stepHOf(stepHours) * MsPerHour
            /\ endJ' = MaxHoursJ * MsPerHour
            /\ tPrevJ' = 0
            /\ prevJ' = fAt(o, target, 0)
            /\ tJ' = stepHOf(stepHours) * MsPerHour
            /\ pcJ' = "scan"
            /\ respJ' = respJ
    /\ UNCHANGED <<sweJ, returnsJ>>
    /\ UNCHANGED othersJ

\* One iteration of the scan loop (lines 221-250).
jonas_scan_iter ==
    /\ pcJ = "scan"
    /\ tJ <= endJ
    /\ LET cur == fAt(oracleJ, targetJ, tJ)
           root == IF prevJ = 0 \/ cur = 0 \/ SignMul(prevJ, cur) < 0
                   THEN refineRootBisection(oracleJ, tPrevJ, tJ, targetJ)
                   ELSE <<>>
       IN  /\ returnsJ' =
                IF root # <<>>
                   /\ IsReturn(fAt(oracleJ, targetJ, root[1]), tolJ)
                   /\ Keep(TimesOf(returnsJ), root[1], SepReturns)
                THEN Append(returnsJ,
                            [t |-> root[1],
                             ang |-> phaseAngleDeg(oracleJ, SecOfMs(root[1])),
                             f |-> fAt(oracleJ, targetJ, root[1])])
                ELSE returnsJ
           /\ tPrevJ' = tJ
           /\ prevJ' = cur
           /\ tJ' = tJ + stepMsJ
    /\ UNCHANGED <<pcJ, sweJ, respJ, oracleJ, targetJ, tolJ, stepMsJ, endJ>>
    /\ UNCHANGED othersJ

\* An oracle access of the scan throws: the catch block answers 500.
jonas_scan_throws ==
    /\ pcJ = "scan"
    /\ tJ <= endJ
    /\ respJ' = <<[status |-> 500, ok |-> FALSE]>>
    /\ pcJ' = "done"
    /\ UNCHANGED <<sweJ, oracleJ, targetJ, tolJ, stepMsJ, endJ, tPrevJ, prevJ, tJ, returnsJ>>
    /\ UNCHANGED othersJ

\* return res.status(200).json({ ok: true, ..., returns })
jonas_respond ==
    /\ pcJ = "scan"
    /\ tJ > endJ
    /\ respJ' = <<[status |-> 200, ok |-> TRUE]>>
    /\ pcJ' = "done"
    /\ UNCHANGED <<sweJ, oracleJ, targetJ, tolJ, stepMsJ, endJ, tPrevJ, prevJ, tJ, returnsJ>>
    /\ UNCHANGED othersJ

NextJ ==
    \/ jonas_precheck
    \/ jonas_new
    \/ jonas_params
    \/ jonas_scan_iter
    \/ jonas_scan_throws
    \/ jonas_respond

InitSpecJ == InitJ /\ IdleR /\ IdleP /\ IdleB /\ IdleG /\ IdleD /\ IdleC /\ IdleH /\ IdleN /\ IdleM /\ IdleS /\ IdleF /\ IdleL /\ IdleY /\ IdleT
SpecJ == InitSpecJ /\ [][NextJ]_vars

(***************************************************************************)
(* The prenatal-check handler (src/api/prenatal-check.js 3-107), as far as *)
(* the oracle handle and the response status go; the hits it computes are  *)
(* not part of the state.                                                  *)
(***************************************************************************)
InitN == pcN = "validate" /\ sweN = "none" /\ respN = <<>>

\* if (!year || !month || !day) return res.status(400)
prenatal_validate ==
    /\ pcN = "validate"
    /\ \E present \in BOOLEAN :
        IF present
        THEN pcN' = "new" /\ respN' = respN
        ELSE pcN' = "done" /\ respN' = <<[status |-> 400, ok |-> FALSE]>>
    /\ UNCHANGED sweN
    /\ UNCHANGED othersN

\* const swe = new SwissEph(); await swe.initSwissEph();
prenatal_new ==
    /\ pcN = "new"
    /\ sweN' = "open"
    /\ \E initOk \in BOOLEAN :
        IF initOk
        THEN pcN' = "compute" /\ respN' = respN
        ELSE pcN' = "done" /\ respN' = <<[status |-> 500, ok |-> FALSE]>>
    /\ UNCHANGED othersN

\* The loop over the planets and the 200 response, or an exception and the
\* catch block's 500.
prenatal_compute ==
    /\ pcN = "compute"
    /\ \E throws \in BOOLEAN :
        respN' = IF throws THEN <<[status |-> 500, ok |-> FALSE]>>
                 ELSE <<[status |-> 200, ok |-> TRUE]>>
    /\ pcN' = "done"
    /\ UNCHANGED sweN
    /\ UNCHANGED othersN

NextN == prenatal_validate \/ prenatal_new \/ prenatal_compute

(***************************************************************************)
(* One request to one of the three handlers that create an oracle handle.  *)
(***************************************************************************)
InitSpecK ==
    /\ IdleR /\ IdleP /\ IdleB /\ IdleG /\ IdleD /\ IdleC /\ IdleM /\ IdleS /\ IdleF /\ IdleL /\ IdleY /\ IdleT
    /\ \/ InitH /\ IdleJ /\ IdleN
       \/ IdleH /\ InitJ /\ IdleN
       \/ IdleH /\ IdleJ /\ InitN

NextK == NextH \/ NextJ \/ NextN

SpecK == InitSpecK /\ [][NextK]_vars

\* C13: a handler that has created an oracle handle has closed it when the
\* request completes, whichever way it completes.
C13_HandleReleased ==
    /\ pcH = "done" => sweH = "closed"
    /\ (pcJ = "done" /\ sweJ # "none") => sweJ = "closed"
    /\ (pcN = "done" /\ sweN # "none") => sweN = "closed"

(***************************************************************************)
(* findRetroWindows or findPerigeesNumerical run on one oracle.            *)
(***************************************************************************)
InitSpecRP ==
    /\ IdleB /\ IdleG /\ IdleD /\ IdleC /\ IdleH /\ IdleJ /\ IdleN /\ IdleM /\ IdleS /\ IdleF /\ IdleL /\ IdleY /\ IdleT
    /\ \/ InitR /\ IdleP
       \/ IdleR /\ InitP

NextRP == NextR \/ NextP

SpecRP == InitSpecRP /\ [][NextRP]_vars

\* The distance oracle of findPerigeesNumerical is non-finite at every time
\* that the scan and its derivative probe.
NanOracleP ==
    /\ oracleP # <<>>
    /\ oracleP.nan[1] <= JdStartP - HP
    /\ oracleP.nan[2] > jdEndP + HP

\* C14: with an oracle that is non-finite at every probed time, both scans
\* run to the last sample of the interval and return, findRetroWindows with
\* no window and findPerigeesNumerical with no hit.
C14_OutageGivesEmptyResult ==
    /\ (pcR = "done" /\ allNaNR) =>
         (retR = <<>> /\ windows = <<>> /\ jdR + StepR > jdEndR)
    /\ (pcR \in {"loop", "break"} /\ allNaNR) => ENABLED NextR
    /\ NanOracleP => hits = <<>>
    /\ (pcP = "done" /\ NanOracleP) => prevJd + StepP > jdEndP
    /\ (pcP \in {"loop", "break"} /\ NanOracleP) => ENABLED NextP

\* Each of the two scans has returned from an interval on which the oracle
\* never gave a finite value.
C14_WitnessR == pcR = "done" /\ allNaNR /\ jdR > JdStartR
C14_WitnessP == pcP = "done" /\ NanOracleP /\ prevJd > JdStartP
C14_Witness == C14_WitnessR \/ C14_WitnessP

\* The instants the handler refines for a body: the minima that goldenMin
\* returns, one for the Sun, one for the Chiron search, one per retrograde
\* window.
RefinedInstantsH(variant, body, o) ==
    IF body.mode = "SUN"
    THEN {minDistanceInWindow(variant, o, jdYearStartH, jdYearEndH)}
    ELSE IF body.mode = "CHIRON_GLOBAL"
    THEN {globalMinWithPad(o, PadChiron).jdMin}
    ELSE LET ws == findRetroWindows(variant, o, 16 * (YearDaysH + 2 * PadRetro))
         IN  {minDistanceInWindow(variant, o, ws[k][1] * RtoG, ws[k][2] * RtoG) : k \in 1..Len(ws)}

\* C15: every perigee in the response is the date of a refined instant t of
\* that body with jdYearStart <= t < jdYearEnd.
C15_PerigeesInsideYear ==
    BodiesStartedH =>
        \A i \in 1..Len(resultsH) :
            \A k \in 1..Len(resultsH[i].perigees) :
                \E t \in RefinedInstantsH(variantH, BODIES(variantH)[i], oraclesH[i]) :
                    /\ jdYearStartH <= t
                    /\ t < jdYearEndH
                    /\ jdToCalendar(t) = resultsH[i].perigees[k]

\* The response holds a perigee of a retrograde window, and a body whose
\* search over the padded year ended at an instant outside the year has none.
C15_Witness ==
    /\ pcH = "done"
    /\ respH = <<[status |-> 200, ok |-> TRUE]>>
    /\ \E i \in 1..Len(resultsH) :
         /\ BODIES(variantH)[i].mode = "RETRO"
         /\ resultsH[i].perigees # <<>>
    /\ \E j \in 1..Len(resultsH) :
         /\ BODIES(variantH)[j].mode \in {"RETRO", "CHIRON_GLOBAL"}
         /\ oraclesH[j].fail = "none"
         /\ resultsH[j].perigees = <<>>
         /\ \E t \in RefinedInstantsH(variantH, BODIES(variantH)[j], oraclesH[j]) :
              t < jdYearStartH \/ t >= jdYearEndH

\* C17: for every body, the perigee dates of the response are in
\* non-decreasing chronological order.
C17_PerigeesChronological ==
    BodiesStartedH =>
        \A i \in 1..Len(resultsH) :
            \A k, l \in 1..Len(resultsH[i].perigees) :
                k < l => resultsH[i].perigees[k] <= resultsH[i].perigees[l]

\* The response holds two perigees of one body, from two retrograde windows
\* of which the second starts before the first ends.
C17_Witness ==
    /\ pcH = "done"
    /\ respH = <<[status |-> 200, ok |-> TRUE]>>
    /\ \E i \in 1..Len(resultsH) :
         LET ws == findRetroWindows(variantH, oraclesH[i], 16 * (YearDaysH + 2 * PadRetro))
         IN  /\ BODIES(variantH)[i].mode = "RETRO"
             /\ Len(resultsH[i].perigees) >= 2
             /\ Len(ws) >= 2
             /\ ws[2][1] < ws[1][2]

(***************************************************************************)
(* The cycle pairing helpers of the lunar handler                          *)
(* (jonas-mondphasen-year.js 442-467) and the part of classifyEvent that   *)
(* chooses the perigee and the apogee of the distance span (567-588).      *)
(* A list entry is its jd, an integer time; indices count from 0 as in     *)
(* the code.  A lookup in an empty list reads list[0].jd of undefined and  *)
(* throws.                                                                 *)
(***************************************************************************)
MaxJdL == 8           \* latest extremum time
MaxLenL == 5          \* number of extrema

\* list[i]
At(list, i) == list[i + 1]

\* The while loop of findNearestIndexByJd: lo on exit.
RECURSIVE findNearestIndexByJd_loop(_, _, _, _)
findNearestIndexByJd_loop(list, jd, lo, hi) ==
    IF lo > hi THEN lo
    ELSE LET mid == (lo + hi) \div 2
         IN  IF At(list, mid) < jd
             THEN findNearestIndexByJd_loop(list, jd, mid + 1, hi)
             ELSE findNearestIndexByJd_loop(list, jd, lo, mid - 1)

\* return Math.abs(list[i1].jd - jd) < Math.abs(list[i0].jd - jd) ? i1 : i0
\* (nearestOf_i1: the variant that returns i1.)
nearestOf_i1(list, jd, i1, i0) == i1
nearestOf(list, jd, i1, i0) ==
    IF Abs(At(list, i1) - jd) < Abs(At(list, i0) - jd) THEN i1 ELSE i0

findNearestIndexByJd(list, jd) ==
    LET lo == findNearestIndexByJd_loop(list, jd, 0, Len(list) - 1)
        i1 == Max(0, Min(Len(list) - 1, lo))
        i0 == Max(0, i1 - 1)
    IN  IF Len(list) = 0 THEN [throws |-> TRUE, i |-> 0]
        ELSE [throws |-> FALSE, i |-> nearestOf(list, jd, i1, i0)]

\* The while loop of findPrevNext: hi on exit.
RECURSIVE findPrevNext_loop(_, _, _, _)
findPrevNext_loop(list, jd, lo, hi) ==
    IF lo > hi THEN hi
    ELSE LET mid == (lo + hi) \div 2
         IN  IF At(list, mid) <= jd
             THEN findPrevNext_loop(list, jd, mid + 1, hi)
             ELSE findPrevNext_loop(list, jd, lo, mid - 1)

findPrevNext(list, jd) ==
    LET hi == findPrevNext_loop(list, jd, 0, Len(list) - 1)
    IN  [prevIndex |-> Max(0, Min(Len(list) - 1, hi)),
         nextIndex |-> Max(0, Min(Len(list) - 1, hi + 1))]

\* [list[prevIndex], list[nextIndex]].sort by the distance to ref: the
\* second comes first only when it is strictly nearer.
nearerOf(list, pn, ref, jd) ==
    IF Abs(At(list, pn.prevIndex) - ref) > Abs(At(list, pn.nextIndex) - ref)
    THEN At(list, pn.nextIndex)
    ELSE At(list, pn.prevIndex)

\* classifyEvent(jdEvent), lines 567-588: perUse and apoUse, as times.
pairOf(perigees, apogees, jd) ==
    IF Len(perigees) = 0 \/ Len(apogees) = 0
    THEN [throws |-> TRUE, perUse |-> 0, apoUse |-> 0]
    ELSE LET perUse0 == At(perigees, findNearestIndexByJd(perigees, jd).i)
             apoUse == nearerOf(apogees, findPrevNext(apogees, jd), perUse0, jd)
             perUse == nearerOf(perigees, findPrevNext(perigees, jd), apoUse, jd)
         IN  [throws |-> FALSE, perUse |-> perUse, apoUse |-> apoUse]

\* Increasing sequences of up to n times out of lo..MaxJdL.
RECURSIVE IncreasingL(_, _)
IncreasingL(lo, n) ==
    IF n = 0 THEN {<<>>}
    ELSE {<<>>} \cup UNION { { <<t>> \o rest : rest \in IncreasingL(t + 1, n - 1) } : t \in lo..MaxJdL }

\* The entries of s at the positions of parity par (1: first, third, ...).
EveryOther(s, par) ==
    LET idx == { k \in 1..Len(s) : k % 2 = par }
        pos(j) == CHOOSE k \in idx : Cardinality({ i \in idx : i < k }) = j - 1
    IN  [j \in 1..Cardinality(idx) |-> s[pos(j)]]

\* Perigees and apogees that alternate in time, and a query time.
InputsL ==
    { [perigees |-> EveryOther(s, par), apogees |-> EveryOther(s, 1 - par), jd |-> jd] :
        s \in (IncreasingL(1, MaxLenL) \ {<<>>}), par \in {0, 1}, jd \in 0..(MaxJdL + 1) }

InitL ==
    /\ lkIn \in InputsL
    /\ lkNearest = <<>>
    /\ lkPrevNext = <<>>
    /\ lkPair = <<>>

call_findNearestIndexByJd ==
    /\ lkIn # <<>> /\ lkNearest = <<>>
    /\ lkNearest' = <<findNearestIndexByJd(lkIn.perigees, lkIn.jd)>>
    /\ UNCHANGED <<lkIn, lkPrevNext, lkPair>>
    /\ UNCHANGED othersL

call_findPrevNext ==
    /\ lkIn # <<>> /\ lkPrevNext = <<>>
    /\ lkPrevNext' = <<findPrevNext(lkIn.perigees, lkIn.jd)>>
    /\ UNCHANGED <<lkIn, lkNearest, lkPair>>
    /\ UNCHANGED othersL

call_classifyEvent_pair ==
    /\ lkIn # <<>> /\ lkPair = <<>>
    /\ lkPair' = <<pairOf(lkIn.perigees, lkIn.apogees, lkIn.jd)>>
    /\ UNCHANGED <<lkIn, lkNearest, lkPrevNext>>
    /\ UNCHANGED othersL

NextL ==
    \/ call_findNearestIndexByJd
    \/ call_findPrevNext
    \/ call_classifyEvent_pair

InitSpecL ==
    InitL /\ IdleR /\ IdleP /\ IdleB /\ IdleG /\ IdleD /\ IdleC /\ IdleH /\ IdleJ /\ IdleN /\ IdleM
          /\ IdleS /\ IdleF /\ IdleY /\ IdleT
SpecL == InitSpecL /\ [][NextL]_vars

\* The times of both lists.
ExtremaL == { lkIn.perigees[k] : k \in 1..Len(lkIn.perigees) }
            \cup { lkIn.apogees[k] : k \in 1..Len(lkIn.apogees) }

\* The event lies between an extremum at or before it and one after it.
BoundedL == (\E t \in ExtremaL : t <= lkIn.jd) /\ (\E t \in ExtremaL : t > lkIn.jd)

LastAtOrBeforeL == CHOOSE t \in ExtremaL : t <= lkIn.jd /\ \A u \in ExtremaL : u <= lkIn.jd => u <= t
FirstAfterL == CHOOSE t \in ExtremaL : t > lkIn.jd /\ \A u \in ExtremaL : u > lkIn.jd => t <= u

\* C21: for an event between an extremum before it and one after it, the
\* perigee and the apogee that classifyEvent uses are the last extremum at
\* or before the event and the first extremum after it.
C21_PairBoundsEvent ==
    (lkIn # <<>> /\ lkPair # <<>> /\ BoundedL) =>
        /\ ~lkPair[1].throws
        /\ {lkPair[1].perUse, lkPair[1].apoUse} = {LastAtOrBeforeL, FirstAfterL}

\* C30: for a non-empty list sorted by jd, findNearestIndexByJd returns an
\* index in 0..length-1 whose entry is nearest to the query over the whole
\* list, and findPrevNext returns indices in 0..length-1 with
\* list[prevIndex].jd <= jd < list[nextIndex].jd when the query is at or
\* after the first entry and before the last.
C30_LookupsCorrect ==
    (lkIn # <<>> /\ Len(lkIn.perigees) > 0) =>
        LET list == lkIn.perigees
            jd == lkIn.jd
            n == Len(list)
        IN  /\ lkNearest # <<>> =>
                /\ ~lkNearest[1].throws
                /\ lkNearest[1].i \in 0..(n - 1)
                /\ \A k \in 0..(n - 1) :
                       Abs(At(list, lkNearest[1].i) - jd) <= Abs(At(list, k) - jd)
            /\ lkPrevNext # <<>> =>
                /\ lkPrevNext[1].prevIndex \in 0..(n - 1)
                /\ lkPrevNext[1].nextIndex \in 0..(n - 1)
                /\ (At(list, 0) <= jd /\ jd < At(list, n - 1)) =>
                       /\ At(list, lkPrevNext[1].prevIndex) <= jd
                       /\ jd < At(list, lkPrevNext[1].nextIndex)

\* Both lookups have answered for a query inside a list of three entries,
\* nearer to the middle entry than to the others.
C30_Witness ==
    /\ lkIn # <<>> /\ lkNearest # <<>> /\ lkPrevNext # <<>>
    /\ Len(lkIn.perigees) = 3
    /\ lkIn.perigees[1] <= lkIn.jd /\ lkIn.jd < lkIn.perigees[3]
    /\ lkNearest[1].i = 1
    /\ lkPrevNext[1].prevIndex = 1 /\ lkPrevNext[1].nextIndex = 2

(***************************************************************************)
(* The lunar perigee/apogee handler: src/api/moon-perigee-apogee-year.js   *)
(* ("daily": the date of the daily sample) and the handler of              *)
(* src/api/jonas-mondphasen-year.js 473-687 ("refined": the date of the    *)
(* extremum that refineExtremumDistance finds around the daily sample).    *)
(*                                                                         *)
(* Times are in units of 1/81 day, counted from jdStart = 01.01.Y 0h UT;   *)
(* a calendar date is the number of the day counted from 01.01.Y, so the   *)
(* dates of year Y are 0 .. YearDaysM - 1.                                 *)
(***************************************************************************)
YearDaysM == 5        \* length of the calendar year, in days
PeriodDaysM == 4      \* period of the Moon's distance, in days
DayM == 81            \* one day: jd = jdStart + i
MaxItM == 40          \* iter < 40

jdStartM == 0
\* swe.julday(year + 1, 1, 2, 0.0)
jdEndM == (YearDaysM + 1) * DayM
\* Math.floor(jdEnd - jdStart)
daysM == (jdEndM - jdStartM) \div DayM

\* formatDateDE(jdToCalendar(jd)), as a day number.
jdToCalendarM(jd) == (jd - jdStartM) \div DayM

\* An oracle o is what swe.calc_ut answers for the Moon: o.fail and o.m, o.s
\* give the distance pos[2], and o.ev are the times of the new and full
\* moons that findPhaseEventsInYear finds from the longitudes pos[0].

\* swe.calc_ut throws for the Moon at jd: from time o.m on when o.fail = "throws".
calcThrowsM(o, jd) == o.fail = "throws" /\ jd >= o.m

\* getMoonDistAU(swe, jd) / pos[2]: a triangle wave with its minimum at o.m,
\* or NaN at every time (o.fail = "nan"), or the value o.s gives for the day
\* of jd, 0 standing for NaN (o.fail = "series").
getMoonDistAU(o, jd) ==
    IF o.fail = "nan" THEN NaN
    ELSE IF o.fail = "series"
    THEN LET v == o.s[Max(0, Min(daysM, (jd - jdStartM) \div DayM)) + 1]
         IN  IF v = 0 THEN NaN ELSE Fin(v)
    ELSE LET P == PeriodDaysM * DayM
             r == (jd - o.m) % P
         IN  Fin(IF 2 * r <= P THEN r ELSE P - r)

\* dist > prevDist ? +1 : -1
\* (trendOf_neutral: the variant with a trend of 0 when neither is greater.)
trendOf_neutral(dist, prevDist) ==
    IF LessNum(prevDist, dist) THEN 1 ELSE IF LessNum(dist, prevDist) THEN 0 - 1 ELSE 0
trendOf(dist, prevDist) == IF LessNum(prevDist, dist) THEN 1 ELSE 0 - 1

\* eventJd >= jdStart && eventJd < jdEnd
InScanM(eventJd) == eventJd >= jdStartM /\ eventJd < jdEndM

\* refineExtremumDistance(swe, jdCenter, kind).jd: the ternary search.
RECURSIVE refineExtremumDistance_loop(_, _, _, _, _)
refineExtremumDistance_loop(o, kind, a, b, iter) ==
    IF iter >= MaxItM THEN (a + b) \div 2
    ELSE LET m1 == a + (b - a) \div 3
             m2 == b - (b - a) \div 3
             f1 == getMoonDistAU(o, m1)
             f2 == getMoonDistAU(o, m2)
             shrinkB == IF kind = "min" THEN LessNum(f1, f2) ELSE LessNum(f2, f1)
         IN  IF shrinkB
             THEN refineExtremumDistance_loop(o, kind, a, m2, iter + 1)
             ELSE refineExtremumDistance_loop(o, kind, m1, b, iter + 1)

refineExtremumDistance(o, jdCenter, kind) ==
    refineExtremumDistance_loop(o, kind, jdCenter - DayM, jdCenter + DayM, 0)

\* a.jd - b.jd < 0
EarlierM(x, y) == x < y

\* The times of the extrema of the response: the raw event times, or the
\* refined ones sorted by time.
extremaOf(variant, o, raw, kind) ==
    IF variant = "daily" THEN raw
    ELSE SortSeq([k \in 1..Len(raw) |-> refineExtremumDistance(o, raw[k], kind)], EarlierM)

\* The dates of the response.
datesOf(variant, o, raw, kind) ==
    LET list == extremaOf(variant, o, raw, kind)
    IN  [k \in 1..Len(list) |-> jdToCalendarM(list[k])]

\* for (const ev of newMoons) / for (const ev of fullMoons): classifyEvent
\* throws for one of the events.  The daily handler has no such loop.
classifyThrowsM(variant, o, perigeesRaw, apogeesRaw) ==
    /\ variant = "refined"
    /\ \E k \in 1..Len(o.ev) :
         pairOf(extremaOf(variant, o, perigeesRaw, "min"),
                extremaOf(variant, o, apogeesRaw, "max"), o.ev[k]).throws

\* The distances of the days jdStart, jdStart + 1, ..., jdStart + days.
SeriesM == [1..(daysM + 1) -> {0, 1, 2}]

DistancesM ==
    { [m |-> m, fail |-> "none", s |-> <<>>] : m \in 0..(PeriodDaysM * DayM - 1) }
    \cup { [m |-> 0, fail |-> "nan", s |-> <<>>] }
    \cup { [m |-> d * DayM, fail |-> "throws", s |-> <<>>] : d \in {0, 2} }
    \cup { [m |-> 0, fail |-> "series", s |-> s] : s \in SeriesM }

\* No phase event, or one on the second day of the year.
PhaseEventsM(variant) == IF variant = "daily" THEN {<<>>} ELSE {<<>>, <<DayM>>}

OraclesM(variant) ==
    { [m |-> d.m, fail |-> d.fail, s |-> d.s, ev |-> ev] :
        d \in DistancesM, ev \in PhaseEventsM(variant) }

\* After the CORS headers and the OPTIONS shortcut: const swe = new SwissEph().
InitM ==
    /\ variantM \in {"daily", "refined"}
    /\ pcM = "validate"
    /\ sweM = "open"
    /\ oracleM \in OraclesM(variantM)
    /\ iM = 0
    /\ prevDistM = <<>>
    /\ prevTrendM = 0
    /\ perigeesRawM = <<>>
    /\ apogeesRawM = <<>>
    /\ perigeesM = <<>>
    /\ apogeesM = <<>>
    /\ respM = <<>>

\* parseInt(yearParam) and the range test; await swe.initSwissEph().
moon_validate ==
    /\ pcM = "validate"
    /\ \E outcome \in {"ok", "badYear", "initThrows"} :
        CASE outcome = "ok" -> pcM' = "loop" /\ respM' = respM
          [] outcome = "badYear" -> pcM' = "finally" /\ respM' = <<[status |-> 400, ok |-> FALSE]>>
          [] outcome = "initThrows" -> pcM' = "finally" /\ respM' = <<[status |-> 500, ok |-> FALSE]>>
    /\ UNCHANGED <<variantM, sweM, oracleM, iM, prevDistM, prevTrendM, perigeesRawM,
                   apogeesRawM, perigeesM, apogeesM>>
    /\ UNCHANGED othersM

\* One iteration of for (let i = 0; i <= days; i++).
moon_scan_iter ==
    /\ pcM = "loop"
    /\ iM <= daysM
    /\ ~calcThrowsM(oracleM, jdStartM + iM * DayM)
    /\ LET jd == jdStartM + iM * DayM
           dist == getMoonDistAU(oracleM, jd)
           trend == IF prevDistM = <<>> THEN 0 ELSE trendOf(dist, prevDistM[1])
           eventJd == jd - DayM
       IN  /\ perigeesRawM' = IF prevDistM # <<>> /\ prevTrendM = 0 - 1 /\ trend = 1
                                 /\ InScanM(eventJd)
                              THEN Append(perigeesRawM, eventJd) ELSE perigeesRawM
           /\ apogeesRawM' = IF prevDistM # <<>> /\ prevTrendM = 1 /\ trend = 0 - 1
                                /\ InScanM(eventJd)
                             THEN Append(apogeesRawM, eventJd) ELSE apogeesRawM
           /\ prevTrendM' = IF prevDistM # <<>> THEN trend ELSE prevTrendM
           /\ prevDistM' = <<dist>>
    /\ iM' = iM + 1
    /\ UNCHANGED <<variantM, pcM, sweM, oracleM, perigeesM, apogeesM, respM>>
    /\ UNCHANGED othersM

\* swe.calc_ut throws: catch (e) { return res.status(500) }
moon_scan_throws ==
    /\ pcM = "loop"
    /\ iM <= daysM
    /\ calcThrowsM(oracleM, jdStartM + iM * DayM)
    /\ respM' = <<[status |-> 500, ok |-> FALSE]>>
    /\ pcM' = "finally"
    /\ UNCHANGED <<variantM, sweM, oracleM, iM, prevDistM, prevTrendM, perigeesRawM,
                   apogeesRawM, perigeesM, apogeesM>>
    /\ UNCHANGED othersM

\* After the loop, classifyEvent throws for a new or full moon:
\* catch (e) { return res.status(500) }
moon_classify_throws ==
    /\ pcM = "loop"
    /\ iM > daysM
    /\ classifyThrowsM(variantM, oracleM, perigeesRawM, apogeesRawM)
    /\ respM' = <<[status |-> 500, ok |-> FALSE]>>
    /\ pcM' = "finally"
    /\ UNCHANGED <<variantM, sweM, oracleM, iM, prevDistM, prevTrendM, perigeesRawM,
                   apogeesRawM, perigeesM, apogeesM>>
    /\ UNCHANGED othersM

\* After the loop: the dates (refined and sorted in the refined variant), the
\* notes of the new and full moons in the refined variant, and
\* return res.status(200).json({ ok: true, ..., perigees, apogees }).
moon_respond ==
    /\ pcM = "loop"
    /\ iM > daysM
    /\ ~classifyThrowsM(variantM, oracleM, perigeesRawM, apogeesRawM)
    /\ perigeesM' = datesOf(variantM, oracleM, perigeesRawM, "min")
    /\ apogeesM' = datesOf(variantM, oracleM, apogeesRawM, "max")
    /\ respM' = <<[status |-> 200, ok |-> TRUE]>>
    /\ pcM' = "finally"
    /\ UNCHANGED <<variantM, sweM, oracleM, iM, prevDistM, prevTrendM, perigeesRawM, apogeesRawM>>
    /\ UNCHANGED othersM

\* finally { try { swe.close(); } catch (_) {} }
moon_finally ==
    /\ pcM = "finally"
    /\ sweM' = "closed"
    /\ pcM' = "done"
    /\ UNCHANGED <<variantM, oracleM, iM, prevDistM, prevTrendM, perigeesRawM, apogeesRawM,
                   perigeesM, apogeesM, respM>>
    /\ UNCHANGED othersM

NextM ==
    \/ moon_validate
    \/ moon_scan_iter
    \/ moon_scan_throws
    \/ moon_classify_throws
    \/ moon_respond
    \/ moon_finally

InitSpecM == InitM /\ IdleR /\ IdleP /\ IdleB /\ IdleG /\ IdleD /\ IdleC /\ IdleH /\ IdleJ /\ IdleN /\ IdleS /\ IdleF /\ IdleL /\ IdleY /\ IdleT
SpecM == InitSpecM /\ [][NextM]_vars

\* C16: every perigee date and every apogee date of the response is a date
\* of year Y.
C16_DatesInsideYear ==
    (pcM = "done" /\ respM = <<[status |-> 200, ok |-> TRUE]>>) =>
        /\ \A k \in 1..Len(perigeesM) : perigeesM[k] \in 0..(YearDaysM - 1)
        /\ \A k \in 1..Len(apogeesM) : apogeesM[k] \in 0..(YearDaysM - 1)

(***************************************************************************)
(* The signed angular differences: signedDiffDeg of the phase-return       *)
(* search (jonas-mondphasen-year.js 15-19, above), signedDiffDeg of        *)
(* prenatal-check.js and normDeltaDeg, each called on ecliptic longitudes  *)
(* in [0, 360), in units of 1e-5 degree.                                   *)
(***************************************************************************)
MaxOctantS == 7       \* longitudes up to 7 * 45 degrees (and one unit around each)

\* signedDiffDeg(a, b) of prenatal-check.js:
\* d = norm360(a) - norm360(b); d = ((d + 540) % 360) - 180
signedDiffDeg_prenatal(a, b) ==
    LET d == norm360(a) - norm360(b)
    IN  RemJS(d + Full + HalfTurn, Full) - HalfTurn

\* normDeltaDeg(d): x = ((d + 540) % 360) - 180; if (x === -180) x = 180
normDeltaDeg(d) ==
    LET x == RemJS(d + Full + HalfTurn, Full) - HalfTurn
    IN  IF x = 0 - HalfTurn THEN HalfTurn ELSE x

\* Longitudes as swe.calc_ut returns them: the multiples of 45 degrees and
\* their neighbours at one unit, within [0, 360).
LongitudesS ==
    { l \in { k * (Full \div 8) + e : k \in 0..(MaxOctantS + 1), e \in {0 - 1, 0, 1} } :
        0 <= l /\ l < Full }

InitS ==
    /\ sdIn \in LongitudesS \X LongitudesS
    /\ sdJonas = <<>>
    /\ sdPrenatal = <<>>
    /\ sdNorm = <<>>

call_signedDiffDeg ==
    /\ sdIn # <<>> /\ sdJonas = <<>>
    /\ sdJonas' = <<signedDiffDeg(sdIn[1], sdIn[2])>>
    /\ UNCHANGED <<sdIn, sdPrenatal, sdNorm>>
    /\ UNCHANGED othersS

call_signedDiffDeg_prenatal ==
    /\ sdIn # <<>> /\ sdPrenatal = <<>>
    /\ sdPrenatal' = <<signedDiffDeg_prenatal(sdIn[1], sdIn[2])>>
    /\ UNCHANGED <<sdIn, sdJonas, sdNorm>>
    /\ UNCHANGED othersS

\* normDeltaDeg(curLon - prevLon)
call_normDeltaDeg ==
    /\ sdIn # <<>> /\ sdNorm = <<>>
    /\ sdNorm' = <<normDeltaDeg(sdIn[1] - sdIn[2])>>
    /\ UNCHANGED <<sdIn, sdJonas, sdPrenatal>>
    /\ UNCHANGED othersS

NextS ==
    \/ call_signedDiffDeg
    \/ call_signedDiffDeg_prenatal
    \/ call_normDeltaDeg

InitSpecS ==
    InitS /\ IdleR /\ IdleP /\ IdleB /\ IdleG /\ IdleD /\ IdleC /\ IdleH /\ IdleJ /\ IdleN /\ IdleM
          /\ IdleF /\ IdleL /\ IdleY /\ IdleT
SpecS == InitSpecS /\ [][NextS]_vars

\* d is the signed difference of a and b: in (-180, 180] and congruent to
\* a - b modulo 360 (so that half a turn is +180).
IsSignedDiff(d, a, b) ==
    /\ 0 - HalfTurn < d
    /\ d <= HalfTurn
    /\ (d - (a - b)) % Full = 0

\* The two helpers that wrap half a turn to +180.
C18_JonasAndNormOnly ==
    sdIn # <<>> =>
        /\ sdJonas # <<>> => IsSignedDiff(sdJonas[1], sdIn[1], sdIn[2])
        /\ sdNorm # <<>> => IsSignedDiff(sdNorm[1], sdIn[1], sdIn[2])

\* C18: each helper returns a value in (-180, 180] that is congruent to
\* a - b modulo 360; half a turn is returned as +180.
C18_SignedDifference ==
    /\ C18_JonasAndNormOnly
    /\ (sdIn # <<>> /\ sdPrenatal # <<>>) => IsSignedDiff(sdPrenatal[1], sdIn[1], sdIn[2])

(***************************************************************************)
(* findPhaseEventsInYear, bisection variant (jonas-mondphasen-year.js      *)
(* 802-854).  Times are in units of 1/4096 day from jdStart, so that step  *)
(* = 0.25 day is 1024 units and ten bisections are exact; angles are in    *)
(* units of 1e-5 degree.  The phase angle grows at a constant rate.        *)
(***************************************************************************)
MaxStepsF == 124      \* latest jdEnd explored, in steps of the scan
StepF == 1024         \* step = 0.25 day
MaxIterF == 35        \* iter < 35
jdStartF == 0

\* angDiff(a, b): a - b in (-180..180]
angDiff(a, b) ==
    LET d == norm360(a - b)
    IN  IF d > HalfTurn THEN d - Full ELSE d

\* getPhaseDeltaDeg(swe, jd): norm360(moonLon - sunLon)
getPhaseDeltaDeg(o, jd) == norm360(o.d0 + o.rate * (jd - jdStartF))

\* g(jd) = angDiff(getPhaseDeltaDeg(swe, jd), targetDeg)
gF(o, target, jd) == angDiff(getPhaseDeltaDeg(o, jd), target)

\* (ga < 0 && gm > 0) || (ga > 0 && gm < 0)
SignChangeF(ga, gm) == (ga < 0 /\ gm > 0) \/ (ga > 0 /\ gm < 0)

\* (prevG === 0) || (g === 0) || (prevG < 0 && g > 0) || (prevG > 0 && g < 0)
IsBracketF(prevG, g) == prevG = 0 \/ g = 0 \/ SignChangeF(prevG, g)

\* The bisection of lines 822-841: jdEvent.  Math.abs(gm) < 1e-6 is gm = 0
\* in units of 1e-5 degree.
RECURSIVE bisectF(_, _, _, _, _, _)
bisectF(o, target, a, b, ga, iter) ==
    IF iter >= MaxIterF THEN (a + b) \div 2
    ELSE LET mid == (a + b) \div 2
             gm == gF(o, target, mid)
         IN  IF gm = 0 THEN mid
             ELSE IF SignChangeF(ga, gm)
                  THEN bisectF(o, target, a, mid, ga, iter + 1)
                  ELSE bisectF(o, target, mid, b, gm, iter + 1)

\* events.length === 0 || Math.abs(jdEvent - events[events.length - 1].jd) > 0.3
KeepF(evs, jdEvent) ==
    Len(evs) = 0 \/ 10 * Abs(jdEvent - Last(evs)) > SepPhaseRoot * 4 * StepF

\* The phase angle at jdStart and its growth per time unit: about 12.2
\* degrees a day, and a quarter more.
OraclesF ==
    { [d0 |-> k * (Full \div 8) + e, rate |-> r] :
        k \in 0..7, e \in {0, 101}, r \in {298, 372} }

InitF ==
    /\ oracleF \in OraclesF
    /\ targetF \in {0, HalfTurn}
    /\ jdEndF \in {jdStartF + n * StepF : n \in {MaxStepsF - 4, MaxStepsF}}
    /\ jdF = jdStartF + StepF
    /\ prevJdF = jdStartF
    /\ prevGF = gF(oracleF, targetF, jdStartF)
    /\ eventsF = <<>>
    /\ pcF = "loop"

\* One iteration of for (let jd = jdStart + step; jd <= jdEnd; jd += step).
findPhaseEventsInYear_iter ==
    /\ pcF = "loop"
    /\ jdF <= jdEndF
    /\ LET g == gF(oracleF, targetF, jdF)
           jdEvent == bisectF(oracleF, targetF, prevJdF, jdF, prevGF, 0)
       IN  /\ eventsF' = IF IsBracketF(prevGF, g) /\ KeepF(eventsF, jdEvent)
                         THEN Append(eventsF, jdEvent)
                         ELSE eventsF
           /\ prevGF' = g
    /\ prevJdF' = jdF
    /\ jdF' = jdF + StepF
    /\ UNCHANGED <<pcF, oracleF, targetF, jdEndF>>
    /\ UNCHANGED othersF

\* return events
findPhaseEventsInYear_return ==
    /\ pcF = "loop"
    /\ jdF > jdEndF
    /\ pcF' = "done"
    /\ UNCHANGED <<oracleF, targetF, jdEndF, jdF, prevJdF, prevGF, eventsF>>
    /\ UNCHANGED othersF

NextF ==
    \/ findPhaseEventsInYear_iter
    \/ findPhaseEventsInYear_return

InitSpecF ==
    InitF /\ IdleR /\ IdleP /\ IdleB /\ IdleG /\ IdleD /\ IdleC /\ IdleH /\ IdleJ /\ IdleN /\ IdleM
          /\ IdleS /\ IdleL /\ IdleY /\ IdleT
SpecF == InitSpecF /\ [][NextF]_vars

\* The phase angle at jd is targetDeg, to the resolution of the bisection
\* (the growth of the phase angle in one time unit).
AtTargetF(jd) == Abs(gF(oracleF, targetF, jd)) <= oracleF.rate

\* The phase angle at jd is targetDeg + 180, to the same resolution.
AtSeamF(jd) == Abs(gF(oracleF, targetF, jd)) >= HalfTurn - oracleF.rate

\* C19: every event is at an instant where the phase angle is targetDeg,
\* and none is at the seam, where the phase angle is targetDeg + 180.
C19_EventsOnlyAtTarget ==
    pcF # "idle" =>
        \A k \in 1..Len(eventsF) : AtTargetF(eventsF[k]) /\ ~AtSeamF(eventsF[k])

(***************************************************************************)
(* Claims about the returns of the phase-return handler.                   *)
(***************************************************************************)
\* The scan has refined the seam: two consecutive samples up to time t lie
\* on either side of the jump of the wrapped difference from +180 to -180.
SeamRefinedJ(t) ==
    \E n \in 1..MaxHoursJ :
        /\ n * stepMsJ <= t
        /\ fAt(oracleJ, targetJ, (n - 1) * stepMsJ) > HalfTurn \div 2
        /\ fAt(oracleJ, targetJ, n * stepMsJ) < 0 - (HalfTurn \div 2)

\* C20: the tolerance is within 0.01..5 degrees; every return has
\* |diff_deg| < tol, diff_deg being the wrapped difference at its time, so
\* that no return is at the seam; and any two returns are more than 2
\* minutes apart.
C20_ReturnsWithinTolerance ==
    (pcJ \in {"scan", "done"} /\ oracleJ # <<>>) =>
        /\ TolLow <= tolJ /\ tolJ <= TolHigh
        /\ \A k \in 1..Len(returnsJ) :
             /\ returnsJ[k].f = fAt(oracleJ, targetJ, returnsJ[k].t)
             /\ Abs(returnsJ[k].f) < tolJ
             /\ Abs(returnsJ[k].f) < HalfTurn - TolHigh
        /\ \A k, l \in 1..Len(returnsJ) :
             k < l => returnsJ[l].t - returnsJ[k].t > SepReturns

\* The response lists two returns, the scan has refined the seam between
\* them, and the first return was found twice, at a sample where the
\* difference is exactly 0.
C20_Witness ==
    /\ pcJ = "done"
    /\ respJ = <<[status |-> 200, ok |-> TRUE]>>
    /\ Len(returnsJ) = 2
    /\ SeamRefinedJ(returnsJ[2].t)
    /\ ~SeamRefinedJ(returnsJ[1].t)
    /\ returnsJ[1].t = stepMsJ
    /\ returnsJ[1].f = 0

\* C26: when the daily scan of the refined handler ends with no perigee or
\* no apogee and a new or full moon is found, the handler answers 200 with
\* ok: true.
C26_MissingExtremaStillOk ==
    (/\ pcM = "done" /\ variantM = "refined" /\ iM > daysM
     /\ oracleM.ev # <<>>
     /\ (perigeesRawM = <<>> \/ apogeesRawM = <<>>)) =>
        respM = <<[status |-> 200, ok |-> TRUE]>>

\* Between two consecutive entries of xs lies exactly one entry of ys.
OneBetween(xs, ys) ==
    \A i \in 1..(Len(xs) - 1) :
        Cardinality({ k \in 1..Len(ys) : xs[i] < ys[k] /\ ys[k] < xs[i + 1] }) = 1

\* C29: the raw perigee candidates and the raw apogee candidates of the
\* daily trend scan alternate in time: between two consecutive candidates of
\* one kind lies exactly one of the other, and no day is a candidate of both.
C29_CandidatesAlternate ==
    /\ OneBetween(perigeesRawM, apogeesRawM)
    /\ OneBetween(apogeesRawM, perigeesRawM)
    /\ \A i \in 1..Len(perigeesRawM) : \A k \in 1..Len(apogeesRawM) :
           perigeesRawM[i] # apogeesRawM[k]

\* The scan has ended with two perigee candidates around an apogee candidate,
\* over distances with a non-finite value and with two equal consecutive
\* values.
C29_Witness ==
    /\ pcM = "done" /\ iM > daysM
    /\ oracleM.fail = "series"
    /\ \E k \in 1..Len(oracleM.s) : oracleM.s[k] = 0
    /\ \E k \in 1..(Len(oracleM.s) - 1) : oracleM.s[k] # 0 /\ oracleM.s[k] = oracleM.s[k + 1]
    /\ Len(perigeesRawM) >= 2 /\ Len(apogeesRawM) >= 1

\* C22: the start of every returned Retrograde window is not later than the
\* first sample of the negative streak that made the state Retrograde (a
\* start clamped to jdStart is never later than any sample).
C22_StartCoversOnset ==
    pcR = "done" =>
        \A i \in 1..Len(windows) :
            LongEnough(windows[i]) => windows[i][1] <= onsetsR[i]

\* The time of sample number j of the scan of findPerigeesNumerical.
SampleTimeP(j) == Min(JdStartP + j * StepP, jdEndP)

\* C23: when a sample of the derivative is exactly zero with a negative
\* sample before it and a positive sample after it, the scan records a hit
\* between the two neighbouring samples.
C23_ZeroSampleBracketed ==
    pcP = "done" =>
        \A j \in 1..MaxStepsP :
            (/\ JdStartP + j * StepP < jdEndP
             /\ drdt(oracleP, SampleTimeP(j - 1)).fin
             /\ drdt(oracleP, SampleTimeP(j)).fin
             /\ drdt(oracleP, SampleTimeP(j + 1)).fin
             /\ drdt(oracleP, SampleTimeP(j - 1)).v < 0
             /\ drdt(oracleP, SampleTimeP(j)).v = 0
             /\ drdt(oracleP, SampleTimeP(j + 1)).v > 0) =>
                \E k \in 1..Len(hits) :
                    SampleTimeP(j - 1) <= hits[k] /\ hits[k] <= SampleTimeP(j + 1)

\* The time of the last sample of the scan of findRetroWindows, in a state
\* where the loop is left.
LastSampleR == IF pcR = "break" THEN Min(jdR, jdEndR) ELSE jdR - StepR

\* C24: the coarse scan samples only times in [jdStart, jdEnd], its first
\* sample is at jdStart and its last sample is at jdEnd, also when
\* jdEnd - jdStart is not a multiple of the step.
C24_ScanSamplesUpToEnd ==
    /\ jdR = JdStartR
    /\ [][ SampleStepR => (JdStartR <= Min(jdR, jdEndR) /\ Min(jdR, jdEndR) <= jdEndR) ]_vars
    /\ [][ (pcR # "done" /\ pcR' = "done") => LastSampleR = jdEndR ]_vars

\* refineRootBisection was called on a bracket whose endpoint values are
\* non-zero and of opposite sign.
RrSignChange ==
    /\ pcRr = "ret"
    /\ SignMul(fAt(rrIn.o, rrIn.target, rrIn.t0ms), fAt(rrIn.o, rrIn.target, rrIn.t1ms)) < 0

\* C25: on such a bracket every iteration of refineRootBisection holds a
\* sub-bracket [a, b] inside [t0, t1] with f(a) * f(b) <= 0, the function
\* returns before the iteration budget is used up, and the instant it returns
\* is the midpoint of a sub-bracket at most 1000 ms wide or a zero of f.
C25_BisectionInvariantAndBudget ==
    RrSignChange =>
        LET f(ms) == fAt(rrIn.o, rrIn.target, ms)
            tr == refineRootBisection_brackets(rrIn.o, rrIn.target, rrIn.t0ms, rrIn.t1ms,
                                               f(rrIn.t0ms), 0)
            last == tr[Len(tr)]
            mid == FloorHalf(last.a + last.b)
        IN  /\ \A k \in 1..Len(tr) :
                 /\ rrIn.t0ms <= tr[k].a /\ tr[k].a <= tr[k].b /\ tr[k].b <= rrIn.t1ms
                 /\ SignMul(f(tr[k].a), f(tr[k].b)) <= 0
            /\ last.i < MaxIter
            /\ rrOut = <<mid>>
            /\ \/ last.b - last.a <= StopMs /\ last.a <= mid /\ mid <= last.b
               \/ f(mid) = 0

\* A bracket of 24 hours was refined, and the refinement took both halves on
\* its way.
C25_Witness ==
    /\ RrSignChange
    /\ rrIn.t1ms - rrIn.t0ms = 24 * MsPerHour
    /\ LET tr == refineRootBisection_brackets(rrIn.o, rrIn.target, rrIn.t0ms, rrIn.t1ms,
                     fAt(rrIn.o, rrIn.target, rrIn.t0ms), 0)
       IN  /\ Len(tr) >= 10
           /\ tr[Len(tr)].a > rrIn.t0ms
           /\ tr[Len(tr)].b < rrIn.t1ms

(***************************************************************************)
(* fetchPerigeeData (src/GeminiService.ts).  Times are whole hours counted *)
(* from 1 January `year`, 0h UTC.  The ephemeris (GeoVector of             *)
(* astronomy-engine, swe.calc_ut for Chiron) is an oracle o: the distance  *)
(* of a body is a triangle wave of period o.P with a minimum of o.d0 at    *)
(* hour o.m, in units of 0.1 AU.                                           *)
(***************************************************************************)
MaxEdgeHoursY == 30   \* minima up to this many hours from either end of the year
PadBeforeY == 2       \* d = -2
LastDayY == 368       \* d <= 368
HoursBeforeY == 12    \* h = -12
HoursAfterY == 36     \* h <= 36
ChironDaysY == 365    \* 365 + (year % 4 === 0 ? 1 : 0)
FarY == 8             \* bestHourDist > 0.8

\* The length of calendar year y, as Date.UTC and swe.julday count it.
DaysInYear(y) == IF y % 4 = 0 /\ (y % 100 # 0 \/ y % 400 = 0) THEN 366 ELSE 365

\* formatDate(new Date(...)) of the instant t: the calendar year and the
\* number of the day in it.
formatDate(year, t) ==
    LET d == t \div 24
    IN  IF d < 0 THEN [year |-> year - 1, day |-> DaysInYear(year - 1) + d + 1]
        ELSE IF d >= DaysInYear(year) THEN [year |-> year + 1, day |-> d - DaysInYear(year) + 1]
        ELSE [year |-> year, day |-> d + 1]

\* vectorLength(GeoVector(bodyName, date, true)) and res.xx[2]
vectorLength(o, t) ==
    LET r == (t - o.m) % o.P
    IN  o.d0 + (IF 2 * r <= o.P THEN r ELSE o.P - r)

\* dists[i].dist < dists[i-1].dist && dists[i].dist < dists[i+1].dist, for
\* samples `every` hours apart
IsLocalMin(o, t, every) ==
    /\ vectorLength(o, t) < vectorLength(o, t - every)
    /\ vectorLength(o, t) < vectorLength(o, t + every)

\* for (let h = -12; h <= 36; h++): bestHourDate after the hours h..36, with
\* best the best hour so far (<<>>: bestHourDist = Infinity).
RECURSIVE bestHourDate(_, _, _, _)
bestHourDate(o, t, h, best) ==
    IF h > HoursAfterY THEN best[1]
    ELSE IF best = <<>> \/ vectorLength(o, t + h) < vectorLength(o, best[1])
         THEN bestHourDate(o, t, h + 1, <<t + h>>)
         ELSE bestHourDate(o, t, h + 1, best)

\* The elements of a set of numbers in ascending order.
RECURSIVE Ascending(_)
Ascending(S) ==
    IF S = {} THEN <<>>
    ELSE LET x == CHOOSE x \in S : \A y \in S : x <= y
         IN  <<x>> \o Ascending(S \ {x})

\* dists[i].time.getUTCFullYear() === year, for the sample of day d
InYearY(year, d) == 0 <= d /\ d <= DaysInYear(year) - 1

\* calculatePlanetPerigee(planetName, year).events, as dates.
calculatePlanetPerigee(planetName, year, o) ==
    LET found == { d \in (1 - PadBeforeY)..(LastDayY - 1) :
                     IsLocalMin(o, 24 * d, 24) /\ InYearY(year, d) }
        best(d) == bestHourDate(o, 24 * d, 0 - HoursBeforeY, <<>>)
        kept == { d \in found :
                    ~(planetName \in {"Merkur", "Venus"} /\ vectorLength(o, best(d)) > FarY) }
        ds == Ascending(kept)
    IN  [k \in 1..Len(ds) |-> formatDate(year, best(ds[k]))]

\* calculateChironPerigee(year).events, as dates: the day at noon.
calculateChironPerigee(year, o) ==
    LET days == ChironDaysY + (IF year % 4 = 0 THEN 1 ELSE 0)
        dist(d) == vectorLength(o, 24 * d + 12)
        minima == { i \in 1..(days - 1) : IsLocalMin(o, 24 * i + 12, 24) }
        foundIndex == CHOOSE i \in minima :
                          \A j \in minima : dist(i) < dist(j) \/ (dist(i) = dist(j) /\ i <= j)
    IN  IF minima = {} THEN <<>> ELSE <<formatDate(year, 24 * foundIndex + 12)>>

order == <<"Merkur", "Venus", "Mars", "Jupiter", "Saturn", "Chiron", "Uranus", "Neptun", "Pluto">>

\* fetchPerigeeData(year): every body's data, sorted by order.
fetchPerigeeData(year, o) ==
    [k \in 1..Len(order) |->
        [planetName |-> order[k],
         events |-> IF order[k] = "Chiron" THEN calculateChironPerigee(year, o)
                    ELSE calculatePlanetPerigee(order[k], year, o)]]

YearsY == {1900, 1999, 2000, 2050}

\* The minimum falls near the start of the year, near its end, or inside it.
OraclesY(year) ==
    { [m |-> m, P |-> P, d0 |-> d0] :
        m \in { base + e : base \in {0, 24 * DaysInYear(year)},
                           e \in (0 - MaxEdgeHoursY)..MaxEdgeHoursY } \cup {24 * 200 + 7},
        P \in {24 * 116, 24 * 800},
        d0 \in {FarY, FarY + 1} }

InitY ==
    /\ fpIn = <<>>
    /\ fpOut = <<>>
    /\ pcFp = "call"

call_fetchPerigeeData ==
    /\ pcFp = "call"
    /\ \E year \in YearsY : \E o \in OraclesY(year) :
        /\ fpIn' = [year |-> year, o |-> o]
        /\ fpOut' = fetchPerigeeData(year, o)
    /\ pcFp' = "ret"
    /\ UNCHANGED othersY

NextY == call_fetchPerigeeData

InitSpecY ==
    InitY /\ IdleR /\ IdleP /\ IdleB /\ IdleG /\ IdleD /\ IdleC /\ IdleH /\ IdleJ /\ IdleN /\ IdleM
          /\ IdleS /\ IdleF /\ IdleL /\ IdleT
SpecY == InitSpecY /\ [][NextY]_vars

\* C27: every event that fetchPerigeeData(year) reports has a date of
\* calendar year `year`.
C27_EventsInsideYear ==
    pcFp = "ret" =>
        \A k \in 1..Len(fpOut) : \A e \in 1..Len(fpOut[k].events) :
            fpOut[k].events[e].year = fpIn.year

(***************************************************************************)
(* jdToCalendar and formatDateDE (src/api/perigaeum-year.js 36-64).  The   *)
(* argument jd is held as the pair Z = Math.floor(jd + 0.5) and            *)
(* F = jd + 0.5 - Z, F in units of 1e-7 day; the decimal constants of the  *)
(* code are held as fractions.                                             *)
(***************************************************************************)
FracT == 10000000     \* one day, in units of F
MicroT == 10          \* 1e-6 day, in units of F
GregorianT == 2299161 \* Z >= 2299161

\* jdToCalendar(jd), for jd = Z - 0.5 + F / FracT.
jdToCalendarYMD(Z, F) ==
    LET alpha == (100 * Z - 186721625) \div 3652425
        A == IF Z >= GregorianT THEN Z + 1 + alpha - (alpha \div 4) ELSE Z
        B == A + 1524
        C == (20 * B - 2442) \div 7305
        D == (1461 * C) \div 4
        E == ((B - D) * 10000) \div 306001
        \* Math.floor(dayFloat + 1e-6), dayFloat = B - D - Math.floor(30.6001 * E) + F
        day == (B - D - ((306001 * E) \div 10000)) + ((F + MicroT) \div FracT)
        month == IF E < 14 THEN E - 1 ELSE E - 13
        year == IF month > 2 THEN C - 4716 ELSE C - 4715
    IN  [year |-> year, month |-> month, day |-> day]

\* formatDateDE({ year, month, day }): dd.mm.yyyy, as the three numbers.
formatDateDE(c) == <<c.day, c.month, c.year>>

\* The length of month m of year y.
MonthLength(y, m) ==
    IF m = 2 THEN DaysInYear(y) - 337
    ELSE IF m \in {4, 6, 9, 11} THEN 30 ELSE 31

\* The number of days from 1 January 1900 to 1 January of year y.
LeapYearsUpTo(y) == (y \div 4) - (y \div 100) + (y \div 400)
DaysBeforeYear(y) == 365 * (y - 1900) + LeapYearsUpTo(y - 1) - LeapYearsUpTo(1899)

\* The number of days from 1 January of year y to the first of month m.
RECURSIVE DaysBeforeMonth(_, _)
DaysBeforeMonth(y, m) == IF m <= 1 THEN 0 ELSE DaysBeforeMonth(y, m - 1) + MonthLength(y, m - 1)

\* swe.julday(y, m, d, 0.0) + 0.5: the day number Z of a civil date
\* (1 January 1900, 0h UT is JD 2415020.5).
DayNumber(y, m, d) == 2415021 + DaysBeforeYear(y) + DaysBeforeMonth(y, m) + (d - 1)

YearsT == {1900, 1999, 2000, 2024, 2050}
CivilDatesT ==
    { [year |-> y, month |-> m, day |-> d] :
        y \in YearsT, m \in 1..12, d \in {1, 2, 15, 27, 28, 29, 30, 31} }

\* Every instant of the inputs: midnight, noon, shortly before the last
\* microday of the day, and inside it.
InputsT ==
    { [date |-> c, Z |-> DayNumber(c.year, c.month, c.day), F |-> F] :
        c \in { x \in CivilDatesT : x.day <= MonthLength(x.year, x.month) },
        F \in {0, FracT \div 2, FracT - 2 * MicroT, FracT - MicroT \div 2, FracT - 1} }

InitT ==
    /\ calIn = <<>>
    /\ calOut = <<>>

call_jdToCalendar ==
    /\ calIn = <<>>
    /\ \E in \in InputsT :
        /\ calIn' = in
        /\ calOut' = <<formatDateDE(jdToCalendarYMD(in.Z, in.F))>>
    /\ UNCHANGED othersT

NextT == call_jdToCalendar

InitSpecT ==
    InitT /\ IdleR /\ IdleP /\ IdleB /\ IdleG /\ IdleD /\ IdleC /\ IdleH /\ IdleJ /\ IdleN /\ IdleM
          /\ IdleS /\ IdleF /\ IdleL /\ IdleY
SpecT == InitSpecT /\ [][NextT]_vars

\* C28: jdToCalendar and formatDateDE give the civil date of the day that
\* contains jd: the month is in 1..12 and the day in 1..(length of the
\* month), also in the last microday before midnight.
C28_CivilDate ==
    calOut # <<>> =>
        /\ calOut[1][2] \in 1..12
        /\ calOut[1][1] \in 1..MonthLength(calOut[1][3], calOut[1][2])
        /\ calOut[1] = <<calIn.date.day, calIn.date.month, calIn.date.year>>

\* Outside the last microday the answer is the civil date: the instants
\* more than 1e-6 day before the next midnight.
CivilDateBeforeLastMicroday ==
    (calOut # <<>> /\ calIn.F + MicroT < FracT) =>
        calOut[1] = <<calIn.date.day, calIn.date.month, calIn.date.year>>

====
